---- MODULE Spec2Model ----
(***************************************************************************)
(* A model of lotus-gpu-miner (lotus-miner-lib, with the GUI's settings    *)
(* task): the poll loop, the search loop, the offloaded GPU dispatch, the  *)
(* settings-apply task, and the pure functions of the GPU search engine.   *)
(*                                                                         *)
(* Scaling.  A byte is modelled as one bit (Byte == 0..1), so a u32 is     *)
(* U32Bytes = 4 bits wide and a u64 is 8 bits wide; all arithmetic keeps   *)
(* that width.  SHA-256 (an external crate) is replaced by a small         *)
(* deterministic digest; lotus_hash keeps the layering of the source.      *)
(* The OpenCL kernel is not part of the sources: a dispatch returns any    *)
(* output buffer, or an error.  The node serves one template per poll,     *)
(* distinct from the templates of the other polls.                         *)
(*                                                                         *)
(* Specifications.  Spec is the server with its tasks; SpecHung is Spec    *)
(* with fairness; SpecLive is Spec with fairness where every dispatch and  *)
(* every node request returns; SpecFind applies the pure functions to      *)
(* their inputs;                                                           *)
(* SpecSearch is the sequence of dispatches on one adopted block; SpecLog  *)
(* is the Log under concurrent callers; SpecMetrics is the hashrate window *)
(* under a system clock that can be set; SpecSha runs the repository's own *)
(* SHA-256 and lotus_hash at full width, one loop iteration per step.      *)
(***************************************************************************)
EXTENDS Integers, Sequences, FiniteSets, TLC

(***************************************************************************)
(* Bounds of the model                                                     *)
(***************************************************************************)
\* bytes of a hash and of a target (32 in the source)
HashBytes == 2
\* output slots the host scans, vec[..0x7f] (0x7f in the source)
ScanLen == 2
\* largest raw value the device writes into a slot in the model
MaxRaw == 3
\* largest byte value of the hashes and targets given to the candidate check
MaxByte == 2
\* inner_iter_size (16 in the source, lib.rs:84), scaled with the word width
InnerIterSize == 2
\* config.kernel_size, the intensity the server is built with
ConfigKernelSize == 1
\* polls the poll loop starts
MaxPolls == 2
\* settings-apply tasks the GUI spawns
MaxApply == 1
\* entries each producer thread logs
MaxLogs == 2
\* calls of get_logs_and_clear each collecting thread makes
MaxGets == 2
\* latest instant of the system clock
MaxClock == 3
\* search-loop iterations that reach the metrics
MaxIterations == 3

(***************************************************************************)
(* Machine integers                                                        *)
(***************************************************************************)
U32Bytes == 4
\* report_hashrate_interval, in units of the model's clock
ReportHashrateInterval == 1
U64Bytes == 2 * U32Bytes
Byte == 0..1
U32Max == 2^U32Bytes - 1
U64Max == 2^U64Bytes - 1

None == <<>>
Some(x) == <<x>>
IsSome(o) == o # <<>>
Unwrap(o) == o[1]

\* LogEntry, without its timestamp
LogEntry(severity, msg) == [severity |-> severity, msg |-> msg]

\* the entries of a log with the severity and message
Count(entries, severity, msg) ==
    Cardinality({i \in 1..Len(entries) : entries[i] = LogEntry(severity, msg)})

Reverse(s) == [i \in 1..Len(s) |-> s[Len(s) + 1 - i]]

\* uN::to_le_bytes: least significant byte first
ToLeBytes(n, len) == [i \in 1..len |-> (n \div 2^(i - 1)) % 2]

RECURSIVE FromLeBytes(_)
\* uN::from_le_bytes
FromLeBytes(bs) ==
    IF bs = <<>> THEN 0 ELSE Head(bs) + 2 * FromLeBytes(Tail(bs))

\* u32::swap_bytes
SwapBytes(n) == FromLeBytes(Reverse(ToLeBytes(n, U32Bytes)))

\* u32::checked_mul
CheckedMul(a, b) == IF a * b > U32Max THEN None ELSE Some(a * b)

(***************************************************************************)
(* Hash function (sha256.rs)                                               *)
(***************************************************************************)
RECURSIVE Mix(_)
Mix(bs) ==
    IF bs = <<>> THEN 1
    ELSE (3 * Mix(SubSeq(bs, 1, Len(bs) - 1)) + bs[Len(bs)] + Len(bs)) % 2^HashBytes

\* sha2::Sha256::digest, abstracted: a deterministic digest of HashBytes bytes
Sha256(bs) == ToLeBytes(Mix(bs), HashBytes)

\* A header is a record of the four byte ranges the code addresses:
\* prev = [0,32), mid = [32,44), nonce = [44,52), tail = [52,160).
LotusHash(header) ==
    LET tx_layer_hash == Sha256(header.tail)
        pow_layer == header.mid \o header.nonce \o tx_layer_hash
        pow_layer_hash == Sha256(pow_layer)
        chain_layer == header.prev \o pow_layer_hash
    IN Sha256(chain_layer)

(***************************************************************************)
(* Work (miner.rs)                                                         *)
(***************************************************************************)
ZeroHeader == [prev |-> <<0>>, mid |-> <<0>>,
               nonce |-> [i \in 1..U64Bytes |-> 0], tail |-> <<0>>]

WorkDefault == [header |-> ZeroHeader,
                target |-> [i \in 1..HashBytes |-> 0], nonce_idx |-> 0]

WorkFromHeader(header, target) ==
    [header |-> header, target |-> target, nonce_idx |-> 0]

SetBigNonce(work, big_nonce) ==
    [work EXCEPT !.header.nonce = ToLeBytes(big_nonce, U64Bytes)]

(***************************************************************************)
(* GPU search engine (miner.rs)                                            *)
(***************************************************************************)
HasNoncesLeft(settings, work) ==
    IsSome(CheckedMul(work.nonce_idx, settings.kernel_size))

NumNoncesPerSearch(settings) ==
    settings.kernel_size * settings.inner_iter_size

RECURSIVE CompareFrom_Lsb(_, _, _)
CompareFrom_Lsb(hash, target, i) ==
    IF i = 0 THEN "tie"
    ELSE LET k == Len(hash) + 1 - i IN
         IF hash[k] > target[k] THEN "reject"
         ELSE IF target[k] > hash[k] THEN "accept"
         ELSE CompareFrom_Lsb(hash, target, i - 1)

RECURSIVE CompareFrom(_, _, _)
\* the loop over hash.iter().zip(target.iter()).rev(), at byte i
CompareFrom(hash, target, i) ==
    IF i = 0 THEN "tie"
    ELSE IF hash[i] > target[i] THEN "reject"
    ELSE IF target[i] > hash[i] THEN "accept"
    ELSE CompareFrom(hash, target, i - 1)

\* the candidate check: TRUE iff the loop reaches return Ok(Some(..))
BelowTarget(hash, target) ==
    CompareFrom(hash, target, Len(hash)) = "accept"

\* the device's output buffer: slots 1..ScanLen are vec[..0x7f], slot
\* ScanLen+1 is vec[0x7f] (never read), slot ScanLen+2 is vec[0x80]
FlagIdx == ScanLen + 2

\* header[44..48].copy_from_slice(&nonce.to_le_bytes())
SpliceNonce(header, nonce) ==
    [header EXCEPT !.nonce = ToLeBytes(nonce, U32Bytes)
                             \o SubSeq(header.nonce, U32Bytes + 1, U64Bytes)]

\* the log entries of one candidate: lines 211-221
CandidateLog(hash) ==
    <<LogEntry("Info", "Candidate")>>
    \o (IF hash[Len(hash)] # 0
        THEN <<LogEntry("Bug", "found nonce's hash has no leading zero byte")>>
        ELSE <<>>)

RECURSIVE ScanSlots_KeepLast(_, _, _, _, _)
ScanSlots_KeepLast(header, target, vec, i, acc) ==
    IF i > ScanLen THEN acc
    ELSE LET nonce == SwapBytes(vec[i]) IN
         IF nonce = 0 THEN ScanSlots_KeepLast(header, target, vec, i + 1, acc)
         ELSE LET h2 == SpliceNonce(header, nonce)
                  hash == LotusHash(h2)
                  logs == acc.logs \o CandidateLog(hash) IN
              IF BelowTarget(hash, target)
              THEN ScanSlots_KeepLast(h2, target, vec, i + 1,
                       [nonce |-> Some(FromLeBytes(h2.nonce)), header |-> Some(h2),
                        logs |-> logs])
              ELSE ScanSlots_KeepLast(h2, target, vec, i + 1, [acc EXCEPT !.logs = logs])

RECURSIVE ScanSlots_AbortOnBug(_, _, _, _, _)
\* a mutant of ScanSlots: a candidate that fails the sanity check ends the scan
ScanSlots_AbortOnBug(header, target, vec, i, acc) ==
    IF i > ScanLen THEN acc
    ELSE LET nonce == SwapBytes(vec[i]) IN
         IF nonce = 0 THEN ScanSlots_AbortOnBug(header, target, vec, i + 1, acc)
         ELSE LET h2 == SpliceNonce(header, nonce)
                  hash == LotusHash(h2)
                  logs == acc.logs \o CandidateLog(hash) IN
              IF hash[Len(hash)] # 0
              THEN [acc EXCEPT !.logs = logs]
              ELSE IF BelowTarget(hash, target)
              THEN [nonce |-> Some(FromLeBytes(h2.nonce)), header |-> Some(h2),
                    logs |-> logs]
              ELSE ScanSlots_AbortOnBug(h2, target, vec, i + 1,
                                        [acc EXCEPT !.logs = logs])

RECURSIVE ScanSlots(_, _, _, _, _)
\* the 'nonce loop of find_nonce from slot i; acc carries the log so far
ScanSlots(header, target, vec, i, acc) ==
    IF i > ScanLen THEN acc
    ELSE LET nonce == SwapBytes(vec[i]) IN
         IF nonce = 0 THEN ScanSlots(header, target, vec, i + 1, acc)
         ELSE LET h2 == SpliceNonce(header, nonce)
                  hash == LotusHash(h2)
                  logs == acc.logs \o CandidateLog(hash) IN
              IF BelowTarget(hash, target)
              THEN [nonce |-> Some(FromLeBytes(h2.nonce)), header |-> Some(h2),
                    logs |-> logs]
              ELSE ScanSlots(h2, target, vec, i + 1, [acc EXCEPT !.logs = logs])

NotFound == [nonce |-> None, header |-> None, logs |-> <<>>]

\* a mutant of FlagSet: the candidate slots are scanned whatever the flag
FlagSet_Always(vec) == TRUE

\* line 201: if vec[0x80] != 0
FlagSet(vec) == vec[FlagIdx] # 0

\* find_nonce: dev is the device's behaviour, [error |-> TRUE] for an OpenCL
\* error, else the output buffer it leaves in vec.  outcome: "panic"
\* (try_into().unwrap() fails), "overflow" (returns Ok(None) before the
\* dispatch), "error" (Err(Ocl)), "ok" (the kernel ran with offset = base).
\* header is the local `header` whose hash was found below the target.
FindNonce(settings, work, dev) ==
    IF NumNoncesPerSearch(settings) > U32Max
    THEN [outcome |-> "panic", dispatched |-> FALSE, base |-> None,
          nonce |-> None, header |-> None, logs |-> <<>>]
    ELSE LET base == CheckedMul(work.nonce_idx, NumNoncesPerSearch(settings)) IN
         IF base = None
         THEN [outcome |-> "overflow", dispatched |-> FALSE, base |-> None,
               nonce |-> None, header |-> None,
               logs |-> <<LogEntry("Error", "Nonce base overflow, skipping")>>]
         ELSE IF dev.error
         THEN [outcome |-> "error", dispatched |-> FALSE, base |-> base,
               nonce |-> None, header |-> None, logs |-> <<>>]
         ELSE LET r == IF FlagSet(dev.vec)
                       THEN ScanSlots(work.header, work.target, dev.vec, 1, NotFound)
                       ELSE NotFound
              IN [outcome |-> "ok", dispatched |-> TRUE, base |-> base,
                  nonce |-> r.nonce, header |-> r.header, logs |-> r.logs]

\* the nonces a dispatch of find_nonce covers: the offset given to the kernel
\* (line 190) and the num_nonces_per_search nonces from it
NonceRange(settings, work) ==
    LET base == work.nonce_idx * NumNoncesPerSearch(settings)
    IN base..(base + NumNoncesPerSearch(settings) - 1)

\* the part of find_nonce before the first device call
PreDispatch(settings, work) ==
    FindNonce(settings, work, [error |-> TRUE, vec |-> <<>>]).outcome

\* Miner::set_intensity
SetIntensity(settings, intensity) ==
    [settings EXCEPT !.kernel_size = 2^intensity]

(***************************************************************************)
(* Blocks and node responses (block.rs)                                    *)
(***************************************************************************)
\* the chain tip the node is on at its time n: the tip changes between the
\* first and the second poll and stays from then on
Tip(n) == (n \div 2) % 2

\* the header of the template the node serves at its time n: n is part of
\* the tail (timestamp and transaction commitment), so that the templates of
\* two polls differ
Header(p, n) == [prev |-> <<p>>, mid |-> <<0>>,
                 nonce |-> [i \in 1..U64Bytes |-> 0], tail |-> <<n>>]

\* the big-endian target the node sends with tip p: the largest target, or
\* one with a zero most significant byte
TargetBE(p) == [i \in 1..HashBytes |-> IF i = 1 THEN 1 - p ELSE 1]

\* RawUnsolvedBlockAndTarget: hex is "ok" when blockhex and target decode to
\* at least 160 bytes and to 32 bytes
RawTemplates(n) ==
    {[hex |-> "ok", header |-> Header(Tip(n), n), body |-> <<n>>,
      target |-> TargetBE(Tip(n))]}

RawUndecodable ==
    {[hex |-> k, header |-> Header(0, 0), body |-> <<0>>,
      target |-> [i \in 1..HashBytes |-> 1]] : k \in {"badhex", "short", "badtarget"}}

\* create_block: None stands for the panic of an unwrap()
CreateBlock(raw) ==
    IF raw.hex # "ok" THEN None
    ELSE Some([header |-> raw.header, body |-> raw.body,
               target |-> Reverse(raw.target)])

PrevHash(block) == block.header.prev

\* what the node answers to getrawunsolvedblock: json is FALSE when the body
\* does not parse as GetRawUnsolvedBlockResponse
Responses(n) ==
    {[status |-> 200, json |-> TRUE, result |-> Some(raw)] :
        raw \in RawTemplates(n) \cup RawUndecodable}
    \cup {[status |-> st, json |-> j, result |-> None] :
        st \in {200, 401, 500}, j \in BOOLEAN}

(***************************************************************************)
(* State                                                                   *)
(***************************************************************************)
VARIABLES
    block_state,     \* BlockState: current_work, current_block, next_block, extra_nonce
    miner,           \* Miner: settings and the engine built by Miner::setup
    miner_poisoned,  \* the std::sync::Mutex around Miner was held by a panicking thread
    node_settings,   \* NodeSettings
    bs_lock,         \* holder of the block_state mutex
    ns_lock,         \* holder of the node_settings mutex
    miner_lock,      \* holder of the miner mutex
    poll_pc,         \* position of the poll loop task
    poll_resp,       \* update_next_block: `response.result` of the parsed response
    polls,           \* polls started
    mine_pc,         \* position of the search loop task
    work,            \* mine_some_nonces: the local copy `work`
    found,           \* mine_some_nonces: `nonce`, the dispatch's result
    block,           \* mine_some_nonces: `block`, the solved block being submitted
    request,         \* the submitblock request in flight
    apply_pc,        \* position of the settings-apply task
    user_settings,   \* the UserSettings the task was spawned with
    applies,         \* settings-apply tasks spawned
    logged,          \* the log entries pushed by the last step
    ghost,           \* history: the template of the last successful poll, the
                     \* templates overwritten while pending, the block adopted and
                     \* whether it was the last one polled, whether the range of
                     \* the current block was found exhausted, the Work dispatched
                     \* and the header find_nonce verified, the tip of the last
                     \* block adopted and the tip switches logged since, the
                     \* number of polls sent when the last submitblock request
                     \* went out (until the next adoption)
    call,            \* one call of a pure function of miner.rs: its arguments
                     \* and, once made, its result
    log,             \* server.log: the buffer behind its RwLock, the threads
                     \* inside Log::log and Log::get_logs_and_clear, and what
                     \* the calls returned
    metrics          \* metrics_nonces and metrics_timestamp, the system
                     \* clock, and the hashrate samples reported

vars == <<block_state, miner, miner_poisoned, node_settings, bs_lock, ns_lock,
          miner_lock, poll_pc, poll_resp, polls, mine_pc, work, found, block,
          request, apply_pc, user_settings, applies, logged, ghost, call, log, metrics>>

PollVars == <<poll_pc, poll_resp, polls>>
MineVars == <<mine_pc, work, found, block, request>>
ApplyVars == <<apply_pc, user_settings, applies>>
MinerVars == <<miner, miner_poisoned, miner_lock>>
\* everything but the harness variables call, log and metrics
ServerVars == <<block_state, MinerVars, node_settings, bs_lock, ns_lock, PollVars,
                MineVars, ApplyVars, logged, ghost>>

Free == "free"

\* config.kernel_size and UserSettings.intensity: the shifts a u32 can take
Intensities == 0..(U32Bytes - 1)

\* the devices Platform::list() / Device::list_all() enumerate
Devices == {0, 1}

\* the random big nonces drawn in the model
BigNonces == {U64Max - 1}

\* the UserSettings the GUI applies in the model: each intensity, with the
\* device in use (0), the other device (1), an index past the list (2), and
\* the other device again for the highest intensity
UserSettingsSet ==
    {[intensity |-> i, gpu_index |-> IF i < 3 THEN i ELSE 1, miner_addr |-> "addr2",
      rpc_poll_interval |-> 1] : i \in Intensities}

NoUserSettings ==
    [intensity |-> 0, gpu_index |-> 0, miner_addr |-> "addr1", rpc_poll_interval |-> 3]

\* what a dispatch can come back with: an OpenCL error, the zeroed buffer
\* (no candidate), or the flag with candidates in the scanned slots
DeviceOutcomes ==
    {[error |-> TRUE, vec |-> <<>>]}
    \cup {[error |-> FALSE, vec |-> [i \in 1..FlagIdx |-> 0]]}
    \cup {[error |-> FALSE, vec |-> v] :
             v \in {w \in [1..FlagIdx -> 0..1] : w[ScanLen + 1] = 0 /\ w[FlagIdx] = 1}}

(***************************************************************************)
(* server.log: Log::log and Log::get_logs_and_clear                        *)
(***************************************************************************)
\* the threads that push entries (the poll loop and the search loop) and the
\* threads that collect them
Producers == {"poll", "mine"}
Collectors == {"gui", "gui2"}

\* Log { logs: RwLock::new(Vec::new()), .. } before any thread has called it
InitLogState ==
    [logs |-> <<>>, lock |-> Free,
     pc |-> [t \in Producers \cup Collectors |-> "idle"],
     calls |-> [t \in Producers \cup Collectors |-> 0],
     drained |-> [c \in Collectors |-> <<>>],
     returned |-> <<>>, last_call |-> None]

\* a mutant of CanWriteLog: the buffer is not behind a lock
CanWriteLog_Unguarded == TRUE

\* self.logs.write() returns once no other thread holds the RwLock
CanWriteLog == log.lock = Free

\* Log::log, line 349: let mut logs = self.logs.write().unwrap()
LogLock(p) ==
    /\ log.pc[p] = "idle" /\ log.calls[p] < MaxLogs
    /\ CanWriteLog
    /\ log' = [log EXCEPT !.lock = p, !.pc[p] = "push"]
    /\ UNCHANGED <<ServerVars, call, metrics>>

\* Log::log, lines 350-353: the entry is printed and pushed, the guard dropped;
\* the entry is the calls[p]+1-th one of thread p
LogPush(p) ==
    /\ log.pc[p] = "push"
    /\ log' = [log EXCEPT !.logs = Append(@, [thread |-> p, seq |-> log.calls[p] + 1]),
                          !.calls[p] = @ + 1,
                          !.lock = Free, !.pc[p] = "idle"]
    /\ UNCHANGED <<ServerVars, call, metrics>>

\* Log::get_logs_and_clear, line 380: let mut logs = self.logs.write().unwrap()
GetLock(c) ==
    /\ log.pc[c] = "idle" /\ log.calls[c] < MaxGets
    /\ CanWriteLog
    /\ log' = [log EXCEPT !.lock = c, !.pc[c] = "drain"]
    /\ UNCHANGED <<ServerVars, call, metrics>>

\* Log::get_logs_and_clear, line 381: logs.drain(..).collect() moves the
\* elements of the buffer into the vector it returns ...
GetDrain(c) ==
    /\ log.pc[c] = "drain"
    /\ log' = [log EXCEPT !.drained[c] = log.logs, !.pc[c] = "clear"]
    /\ UNCHANGED <<ServerVars, call, metrics>>

\* ... and dropping the Drain leaves the buffer with length 0; the guard is
\* dropped and the vector returned.  last_call keeps what the call returned
\* and what the buffer held when it was emptied.
GetClear(c) ==
    /\ log.pc[c] = "clear"
    /\ log' = [log EXCEPT !.logs = <<>>,
                          !.returned = @ \o log.drained[c],
                          !.last_call = Some([returned |-> log.drained[c],
                                              buffered |-> log.logs]),
                          !.drained[c] = <<>>,
                          !.calls[c] = @ + 1,
                          !.lock = Free, !.pc[c] = "idle"]
    /\ UNCHANGED <<ServerVars, call, metrics>>

(***************************************************************************)
(* Hashrate metrics: the tail of mine_some_nonces (lib.rs 279-300)         *)
(***************************************************************************)
\* the instants SystemTime::now() can return
Clock == 0..MaxClock

\* the num_nonces_per_search an iteration adds: 0 when the range is exhausted,
\* miner.num_nonces_per_search() after a dispatch
NoncesSearched ==
    {0, NumNoncesPerSearch([kernel_size |-> 2^ConfigKernelSize,
                            inner_iter_size |-> InnerIterSize])}

\* metrics_timestamp: Mutex::new(SystemTime::now()), metrics_nonces:
\* AtomicU64::new(0); the clock reads 1 when the server is built
InitMetricsState ==
    [metrics_nonces |-> 0, metrics_timestamp |-> 1, now |-> 1,
     pc |-> "add", elapsed |-> 0, iterations |-> 0,
     samples |-> 0, last_sample |-> None, logs |-> <<>>,
     total_added |-> 0, total_sampled |-> 0]

\* the system clock: time passes, or the clock is set (SystemTime is not
\* monotonic, which is why duration_since returns a Result)
ClockSet(t) ==
    /\ t # metrics.now
    /\ metrics' = [metrics EXCEPT !.now = t, !.logs = <<>>]
    /\ UNCHANGED <<ServerVars, call, log>>

\* a mutant of FetchAdd: the count of the call replaces the counter
FetchAdd_Store(counter, n) == n

\* AtomicU64::fetch_add, which wraps around on overflow
FetchAdd(counter, n) == (counter + n) % (U64Max + 1)

\* lines 280-282: metrics_nonces.fetch_add(num_nonces_per_search), and the
\* guard of metrics_timestamp is taken (only this task takes it).
\* total_added and total_sampled are history: the nonces added by all
\* iterations and the nonces of all samples
MetricsAdd(n) ==
    /\ metrics.pc = "add" /\ metrics.iterations < MaxIterations
    /\ metrics' = [metrics EXCEPT !.metrics_nonces = FetchAdd(@, n),
                                  !.total_added = @ + n,
                                  !.iterations = @ + 1,
                                  !.pc = "elapsed", !.logs = <<>>]
    /\ UNCHANGED <<ServerVars, call, log>>

\* lines 283-292: SystemTime::now().duration_since(*timestamp); an Err (the
\* clock reads earlier than the window start) is logged as a bug and ends the
\* iteration with Ok(())
MetricsElapsed ==
    /\ metrics.pc = "elapsed"
    /\ IF metrics.now < metrics.metrics_timestamp
       THEN metrics' = [metrics EXCEPT
                !.pc = "add",
                !.logs = <<LogEntry("Bug", "BUG: Elapsed time error")>>]
       ELSE metrics' = [metrics EXCEPT
                !.elapsed = metrics.now - metrics.metrics_timestamp,
                !.pc = "check", !.logs = <<>>]
    /\ UNCHANGED <<ServerVars, call, log>>

\* lines 293-297: if elapsed > report_hashrate_interval, the counter is
\* loaded, the sample num_nonces / elapsed reported and the counter stored 0
MetricsReport ==
    /\ metrics.pc = "check"
    /\ IF metrics.elapsed > ReportHashrateInterval
       THEN metrics' = [metrics EXCEPT
                !.samples = @ + 1,
                !.last_sample = Some([num_nonces |-> metrics.metrics_nonces,
                                      elapsed |-> metrics.elapsed]),
                !.metrics_nonces = 0,
                !.total_sampled = @ + metrics.metrics_nonces,
                !.pc = "stamp", !.logs = <<>>]
       ELSE metrics' = [metrics EXCEPT !.pc = "add", !.logs = <<>>]
    /\ UNCHANGED <<ServerVars, call, log>>

\* line 298: *timestamp = SystemTime::now(), a second reading of the clock
MetricsStamp ==
    /\ metrics.pc = "stamp"
    /\ metrics' = [metrics EXCEPT !.metrics_timestamp = metrics.now,
                                  !.pc = "add", !.logs = <<>>]
    /\ UNCHANGED <<ServerVars, call, log>>

\* Server::from_config with config.kernel_size = k
InitServer(k) ==
    /\ block_state = [current_work |-> WorkDefault, current_block |-> None,
                      next_block |-> None, extra_nonce |-> 0]
    /\ miner = [settings |-> [kernel_size |-> 2^k, inner_iter_size |-> InnerIterSize,
                              gpu_index |-> 0],
                build |-> 1]
    /\ miner_poisoned = FALSE
    /\ node_settings = [miner_addr |-> "addr1", rpc_poll_interval |-> 3]
    /\ bs_lock = Free /\ ns_lock = Free /\ miner_lock = Free
    /\ poll_pc = "start" /\ poll_resp = None /\ polls = 0
    /\ mine_pc = "start" /\ work = WorkDefault /\ found = None /\ block = None
    /\ request = None
    /\ apply_pc = "idle" /\ user_settings = NoUserSettings /\ applies = 0
    /\ logged = <<>>
    /\ ghost = [last_polled |-> None, overwritten |-> {}, adopted |-> None,
                adopted_latest |-> TRUE, exhausted |-> FALSE,
                dispatched |-> None, verified |-> None,
                mined_tip |-> None, switch_events |-> 0,
                polls_at_submit |-> None]

Init ==
    /\ InitServer(ConfigKernelSize)
    /\ call = [op |-> "none"]
    /\ log = InitLogState
    /\ metrics = InitMetricsState

(***************************************************************************)
(* Poll loop: Server::run t1 and update_next_block (lib.rs)                *)
(***************************************************************************)

\* the poll loop starts a poll: the read of rpc_poll_interval and the sleep
\* that end the previous round of run's loop, init_request, the read of
\* miner_addr, send().  Each takes the node_settings lock for an instant
PollSend ==
    /\ poll_pc = "start" /\ polls < MaxPolls
    /\ ns_lock = Free
    /\ poll_pc' = "inflight" /\ polls' = polls + 1
    /\ logged' = <<>>
    /\ UNCHANGED <<block_state, MinerVars, node_settings, bs_lock, ns_lock, poll_resp,
                   MineVars, ApplyVars, ghost, call, log, metrics>>

\* send() or text() returns Err: `?` returns it, run logs it
PollTransportError ==
    /\ poll_pc = "inflight"
    /\ poll_pc' = "start"
    /\ logged' = <<LogEntry("Error", "update_next_block error")>>
    /\ UNCHANGED <<block_state, MinerVars, node_settings, bs_lock, ns_lock, poll_resp,
                   polls, MineVars, ApplyVars, ghost, call, log, metrics>>

\* a mutant of CredentialHint: the hint follows every body that fails to decode
CredentialHint_AnyFailure(r) == TRUE

\* line 192, inside the arm Err(_): if status == StatusCode::UNAUTHORIZED
CredentialHint(r) == r.status = 401

\* lines 183-198: the entries logged for the response r, and the decoded
\* response the function goes on with (None when it returns at line 196)
DecodeResponse(r) ==
    IF ~r.json
    THEN [logs |-> <<LogEntry("Error", "getrawunsolvedblock failed")>>
                   \o (IF CredentialHint(r)
                       THEN <<LogEntry("Error", "wrong username/password")>>
                       ELSE <<>>),
          response |-> None]
    ELSE [logs |-> <<>>, response |-> Some(r.result)]

\* the node answers: serde_json::from_str and its Err arm
PollResponse ==
    /\ poll_pc = "inflight"
    /\ \E r \in Responses(polls) :
          LET d == DecodeResponse(r) IN
          /\ logged' = d.logs
          /\ poll_resp' = d.response
          /\ poll_pc' = IF d.response = None THEN "start" ELSE "store"
    /\ UNCHANGED <<block_state, MinerVars, node_settings, bs_lock, ns_lock,
                   polls, MineVars, ApplyVars, ghost, call, log, metrics>>

StoreNext_KeepPending(bs, blk) ==
    IF IsSome(bs.next_block)
    THEN [bs EXCEPT !.extra_nonce = @ + 1]
    ELSE [bs EXCEPT !.extra_nonce = @ + 1, !.next_block = Some(blk)]

\* a mutant of StoreNext: the poll loop makes the template the current block
StoreNext_SetsCurrentBlock(bs, blk) ==
    [bs EXCEPT !.extra_nonce = @ + 1, !.next_block = Some(blk),
               !.current_block = Some(blk)]

\* a mutant of StoreNext: the template is stored without counting it
StoreNext_SameExtraNonce(bs, blk) ==
    [bs EXCEPT !.next_block = Some(blk)]

\* a mutant of StoreNext: storing a template drops the block being searched
StoreNext_DropsCurrentBlock(bs, blk) ==
    [bs EXCEPT !.extra_nonce = @ + 1, !.next_block = Some(blk),
               !.current_block = None]

\* block_state.extra_nonce += 1; block_state.next_block = Some(block)
StoreNext(bs, blk) ==
    [bs EXCEPT !.extra_nonce = @ + 1, !.next_block = Some(blk)]

\* the log entry of lines 211-223
TipLog(bs, blk) ==
    IF IsSome(bs.current_block)
    THEN IF PrevHash(Unwrap(bs.current_block)) # PrevHash(blk)
         THEN <<LogEntry("Info", "Switched to new chain tip")>>
         ELSE <<>>
    ELSE <<LogEntry("Info", "Started mining on chain tip")>>

\* update_next_block on the response r with Chain State bs, from line 183 to
\* its return: the Chain State after it, the entries it logs, and whether
\* create_block panicked
UpdateNextBlock(bs, r) ==
    LET d == DecodeResponse(r) IN
    IF d.response = None
    THEN [block_state |-> bs, logs |-> d.logs, panic |-> FALSE]
    ELSE LET result == Unwrap(d.response) IN
         IF result = None
         THEN [block_state |-> bs,
               logs |-> <<LogEntry("Error", "getrawunsolvedblock failed")>>,
               panic |-> FALSE]
         ELSE LET created == CreateBlock(Unwrap(result)) IN
              IF created = None
              THEN [block_state |-> bs, logs |-> <<>>, panic |-> TRUE]
              ELSE [block_state |-> StoreNext(bs, Unwrap(created)),
                    logs |-> TipLog(bs, Unwrap(created)),
                    panic |-> FALSE]

\* a mutant of NullResult: a poll without a template is counted
NullResult_CountsPoll(bs) == [bs EXCEPT !.extra_nonce = @ + 1]

\* lines 200-209: the result is null; the error is logged and the guard is
\* dropped with nothing written
NullResult(bs) == bs

\* update_next_block from block_state.lock() to its return; the section holds
\* no await, so it is one step
PollStore ==
    /\ poll_pc = "store"
    /\ bs_lock = Free
    /\ LET result == Unwrap(poll_resp) IN
       IF result = None
       THEN /\ logged' = <<LogEntry("Error", "getrawunsolvedblock failed")>>
            /\ poll_pc' = "start"
            /\ block_state' = NullResult(block_state)
            /\ UNCHANGED ghost
       ELSE LET created == CreateBlock(Unwrap(result)) IN
            IF created = None
            THEN \* an unwrap() in create_block panics: the task ends, the
                 \* guard is dropped by the unwinding, run() returns the
                 \* JoinError; the search loop runs on until the runtime is
                 \* dropped
                 /\ logged' = <<>>
                 /\ poll_pc' = "dead"
                 /\ UNCHANGED <<block_state, ghost>>
            ELSE LET blk == Unwrap(created)
                     bs2 == StoreNext(block_state, blk) IN
                 /\ logged' = TipLog(block_state, blk)
                 /\ block_state' = bs2
                 /\ ghost' = [ghost EXCEPT
                        !.last_polled = Some(blk),
                        !.switch_events =
                            @ + Count(TipLog(block_state, blk), "Info",
                                      "Switched to new chain tip"),
                        !.overwritten =
                            IF IsSome(block_state.next_block)
                               /\ bs2.next_block # block_state.next_block
                            THEN @ \cup {Unwrap(block_state.next_block)} ELSE @]
                 /\ poll_pc' = "start"
    /\ poll_resp' = None
    /\ UNCHANGED <<MinerVars, node_settings, bs_lock, ns_lock,
                   polls, MineVars, ApplyVars, call, log, metrics>>

(***************************************************************************)
(* Search loop: Server::run t2, mine_some_nonces and submit_block (lib.rs) *)
(***************************************************************************)
\* a mutant of Adopt: the Work of the adopted block goes on from the
\* nonce_idx of the previous one
Adopt_KeepsNonceIdx(bs) ==
    IF IsSome(bs.next_block)
    THEN LET next_block == Unwrap(bs.next_block) IN
         [bs EXCEPT !.current_work = [header |-> next_block.header,
                                      target |-> next_block.target,
                                      nonce_idx |-> bs.current_work.nonce_idx],
                    !.current_block = Some(next_block),
                    !.next_block = None]
    ELSE bs

\* lines 232-235: adopt the pending block
Adopt(bs) ==
    IF IsSome(bs.next_block)
    THEN LET next_block == Unwrap(bs.next_block) IN
         [bs EXCEPT !.current_work = WorkFromHeader(next_block.header, next_block.target),
                    !.current_block = Some(next_block),
                    !.next_block = None]
    ELSE bs

\* block_state.current_work.nonce_idx += 1: the results the builds produce
\* at u32::MAX, None for the overflow panic of a build with overflow checks
IncNonceIdx(bs) ==
    IF bs.current_work.nonce_idx < U32Max
    THEN {Some([bs EXCEPT !.current_work.nonce_idx = @ + 1])}
    ELSE {Some([bs EXCEPT !.current_work.nonce_idx = 0]), None}

\* a mutant of MineFinish: the block_state guard outlives the iteration
MineFinish_KeepsGuard(bs, entries) ==
    /\ \E r \in IncNonceIdx(bs) :
          IF r = None
          THEN /\ mine_pc' = "dead" /\ block_state' = bs
          ELSE /\ mine_pc' = "start" /\ block_state' = Unwrap(r)
    /\ logged' = entries
    /\ bs_lock' = bs_lock
    /\ work' = WorkDefault /\ found' = None /\ block' = None /\ request' = None
    /\ ghost' = [ghost EXCEPT !.dispatched = None, !.verified = None,
                              !.adopted = IF bs.current_block = None THEN None ELSE @,
                              !.exhausted = IF bs.current_block = None THEN FALSE ELSE @]

\* lines 278-300, the return to the loop of run and its sleep; the
\* block_state guard is dropped at the return, or by the unwinding of the panic
MineFinish(bs, entries) ==
    /\ \E r \in IncNonceIdx(bs) :
          IF r = None
          THEN /\ mine_pc' = "dead" /\ block_state' = bs
          ELSE /\ mine_pc' = "start" /\ block_state' = Unwrap(r)
    /\ logged' = entries
    /\ bs_lock' = Free
    /\ work' = WorkDefault /\ found' = None /\ block' = None /\ request' = None
    /\ ghost' = [ghost EXCEPT !.dispatched = None, !.verified = None,
                              !.adopted = IF bs.current_block = None THEN None ELSE @,
                              !.exhausted = IF bs.current_block = None THEN FALSE ELSE @]

\* a mutant of NothingToMine: the search loop never idles
NothingToMine_Never(bs) == FALSE

\* lines 236-238: if block_state.current_block.is_none() { return Ok(()) }
NothingToMine(bs) == bs.current_block = None

\* a mutant of DispatchCopy: the big nonce is written into the Work of the
\* Chain State
DispatchCopy_InPlace(bs, big_nonce) ==
    [block_state |-> [bs EXCEPT !.current_work = SetBigNonce(@, big_nonce)],
     work |-> SetBigNonce(bs.current_work, big_nonce)]

\* lines 239-241: `let mut work = block_state.current_work` copies the Work
\* (Work is Copy), and set_big_nonce writes into the copy
DispatchCopy(bs, big_nonce) ==
    [block_state |-> bs, work |-> SetBigNonce(bs.current_work, big_nonce)]

\* lines 231-242
MineBegin ==
    /\ mine_pc = "start"
    /\ bs_lock = Free
    /\ LET bs2 == Adopt(block_state) IN
       /\ IF NothingToMine(bs2)
          THEN /\ mine_pc' = "start"
               /\ block_state' = bs2
               /\ UNCHANGED <<work, ghost>>
          ELSE /\ \E big_nonce \in BigNonces :
                     LET c == DispatchCopy(bs2, big_nonce) IN
                     /\ work' = c.work
                     /\ block_state' = c.block_state
               /\ mine_pc' = "spawn"
               /\ ghost' = [ghost EXCEPT
                      !.adopted = IF IsSome(block_state.next_block)
                                  THEN bs2.current_block ELSE @,
                      !.adopted_latest = IF IsSome(block_state.next_block)
                                         THEN bs2.current_block = ghost.last_polled
                                         ELSE @,
                      !.exhausted = IF IsSome(block_state.next_block)
                                    THEN FALSE ELSE @,
                      !.mined_tip = IF IsSome(block_state.next_block)
                                    THEN Some(PrevHash(Unwrap(bs2.current_block)))
                                    ELSE @,
                      !.switch_events = IF IsSome(block_state.next_block)
                                        THEN 0 ELSE @,
                      !.polls_at_submit = IF IsSome(block_state.next_block)
                                          THEN None ELSE @,
                      !.dispatched = None,
                      !.verified = None]
    /\ logged' = <<>>
    /\ UNCHANGED <<MinerVars, node_settings, bs_lock, ns_lock, PollVars,
                   found, block, request, ApplyVars, call, log, metrics>>

CanLockMiner_Unguarded == TRUE

\* std::sync::Mutex::lock on server.miner returns
CanLockMiner == miner_lock = Free

\* the closure of spawn_blocking up to the device call: lines 247-256 and
\* find_nonce's lines 166-178
MineSpawn ==
    /\ mine_pc = "spawn"
    /\ CanLockMiner
    /\ IF miner_poisoned
       THEN \* lock().unwrap() panics, and so does .await.unwrap()
            /\ mine_pc' = "dead" /\ logged' = <<>>
            /\ UNCHANGED <<MinerVars, ghost>>
       ELSE IF ~HasNoncesLeft(miner.settings, work)
       THEN /\ logged' = <<LogEntry("Error", "Exhaustively searched nonces")>>
            /\ mine_pc' = "relock"
            /\ ghost' = [ghost EXCEPT !.exhausted = TRUE]
            /\ UNCHANGED MinerVars
       ELSE LET pre == PreDispatch(miner.settings, work) IN
            CASE pre = "panic" ->
                    \* try_into().unwrap() panics with the miner guard held
                    /\ mine_pc' = "dead" /\ logged' = <<>>
                    /\ miner_poisoned' = TRUE
                    /\ UNCHANGED <<miner, miner_lock, ghost>>
              [] pre = "overflow" ->
                    /\ logged' = <<LogEntry("Error", "Nonce base overflow, skipping")>>
                    /\ mine_pc' = "relock"
                    /\ ghost' = [ghost EXCEPT !.exhausted = TRUE]
                    /\ UNCHANGED MinerVars
              [] OTHER ->
                    /\ logged' = <<>>
                    /\ mine_pc' = "dispatch"
                    /\ miner_lock' = "mine"
                    /\ ghost' = [ghost EXCEPT !.dispatched = Some(work)]
                    /\ UNCHANGED <<miner, miner_poisoned>>
    /\ UNCHANGED <<block_state, node_settings, bs_lock, ns_lock, PollVars,
                   work, found, block, request, ApplyVars, call, log, metrics>>

\* the device call returns: find_nonce's lines 186-233, the end of the
\* closure, and the `?` of line 261
MineDispatchReturn ==
    /\ mine_pc = "dispatch"
    /\ \E dev \in DeviceOutcomes :
          LET r == FindNonce(miner.settings, work, dev) IN
          IF r.outcome = "ok"
          THEN /\ found' = r.nonce
               /\ ghost' = [ghost EXCEPT !.verified = r.header]
               /\ mine_pc' = "relock"
               /\ logged' = r.logs
               /\ UNCHANGED work
          ELSE /\ found' = None
               /\ work' = WorkDefault
               /\ ghost' = [ghost EXCEPT !.dispatched = None]
               /\ mine_pc' = "start"
               /\ logged' = <<LogEntry("Error", "mine_some_nonces error")>>
    /\ miner_lock' = Free
    /\ UNCHANGED <<block_state, miner, miner_poisoned, node_settings, bs_lock,
                   ns_lock, PollVars, block, request, ApplyVars, call, log, metrics>>

\* block.header = *work.header()
SolvedBlock_StateHeader(current_block, w) ==
    [current_block EXCEPT !.header = block_state.current_work.header]

SolvedBlock(current_block, w) ==
    [current_block EXCEPT !.header = w.header]

\* a mutant of TakeCurrentBlock: the solved block stays the current block
TakeCurrentBlock_Keeps(bs) == bs

\* line 265: block_state.current_block.take()
TakeCurrentBlock(bs) == [bs EXCEPT !.current_block = None]

\* lines 262-267, and lines 274-300 when there is nothing to submit
MineRelock ==
    /\ mine_pc = "relock"
    /\ bs_lock = Free
    /\ IF IsSome(found)
       THEN LET w2 == SetBigNonce(work, Unwrap(found))
                info == LogEntry("Info", "Block hash below target with nonce") IN
            IF IsSome(block_state.current_block)
            THEN /\ work' = w2
                 /\ block' = Some(SolvedBlock(Unwrap(block_state.current_block), w2))
                 /\ block_state' = TakeCurrentBlock(block_state)
                 /\ bs_lock' = "mine"
                 /\ mine_pc' = "submit"
                 /\ logged' = <<info>>
                 /\ UNCHANGED <<found, request, ghost>>
            ELSE MineFinish(block_state,
                            <<info, LogEntry("Bug", "Found nonce but no block")>>)
       ELSE MineFinish(block_state, <<>>)
    /\ UNCHANGED <<MinerVars, node_settings, ns_lock, PollVars, ApplyVars, call, log, metrics>>

\* submit_block: init_request and send(), with the block_state guard held
MineSubmitSend ==
    /\ mine_pc = "submit"
    /\ ns_lock = Free
    /\ request' = block
    /\ mine_pc' = "submitted"
    /\ logged' = <<>>
    /\ ghost' = [ghost EXCEPT !.polls_at_submit = Some(polls)]
    /\ UNCHANGED <<block_state, MinerVars, node_settings, bs_lock, ns_lock, PollVars,
                   work, found, block, ApplyVars, call, log, metrics>>

\* the reason strings of the model: the one the code singles out, a
\* differently cased and an empty one, and a rejection of the node
Reasons == {"inconclusive", "Inconclusive", "", "bad-txns"}

\* what submitblock comes back with: sent is FALSE when send() or text()
\* return Err, json is FALSE when the body is no SubmitBlockResponse
SubmitResponses ==
    {[sent |-> FALSE, json |-> FALSE, result |-> None],
     [sent |-> TRUE, json |-> FALSE, result |-> None]}
    \cup {[sent |-> TRUE, json |-> TRUE, result |-> r] :
             r \in {None} \cup {Some(x) : x \in Reasons}}

RejectHint_AlwaysError(reason) ==
    LogEntry("Error", "misconfigured")

\* lines 324-335: the hint that follows REJECTED BLOCK
RejectHint(reason) ==
    IF reason = "inconclusive"
    THEN LogEntry("Warn", "orphan race")
    ELSE LogEntry("Error", "misconfigured")

\* submit_block from the response on: err is TRUE when it returns Err
SubmitBlock(resp) ==
    IF ~resp.sent \/ ~resp.json
    THEN [err |-> TRUE, logs |-> <<>>]
    ELSE [err |-> FALSE,
          logs |-> IF resp.result = None
                   THEN <<LogEntry("Info", "BLOCK ACCEPTED!")>>
                   ELSE <<LogEntry("Error", "REJECTED BLOCK"),
                          RejectHint(Unwrap(resp.result))>>]

\* the outcomes of a submission the server model tells apart
SubmitOutcomes == {"transport_error", "bad_json", "null", "inconclusive", "other"}

\* a response with the outcome
SubmitResponseOf(outcome) ==
    CASE outcome = "transport_error" -> [sent |-> FALSE, json |-> FALSE, result |-> None]
      [] outcome = "bad_json" -> [sent |-> TRUE, json |-> FALSE, result |-> None]
      [] outcome = "null" -> [sent |-> TRUE, json |-> TRUE, result |-> None]
      [] outcome = "inconclusive" ->
            [sent |-> TRUE, json |-> TRUE, result |-> Some("inconclusive")]
      [] OTHER -> [sent |-> TRUE, json |-> TRUE, result |-> Some("bad-txns")]

\* the log entries of submit_block and of lines 268-273
SubmitLog(outcome) ==
    LET r == SubmitBlock(SubmitResponseOf(outcome)) IN
    r.logs \o (IF r.err THEN <<LogEntry("Error", "submit_block error")>> ELSE <<>>)

\* submit_block from the response on, then lines 278-300
MineSubmitReturn ==
    /\ mine_pc = "submitted"
    /\ \E outcome \in SubmitOutcomes : MineFinish(block_state, SubmitLog(outcome))
    /\ UNCHANGED <<MinerVars, node_settings, ns_lock, PollVars, ApplyVars, call, log, metrics>>

(***************************************************************************)
(* Settings-apply task: MinerApp::_apply_settings (app.rs) and             *)
(* Miner::set_intensity, Miner::update_gpu_index (miner.rs).  The model    *)
(* runs the tasks one after the other.                                     *)
(***************************************************************************)
\* _apply_settings up to line 291: the node_settings guard stays held
ApplyNodeSettings ==
    /\ apply_pc = "idle" /\ applies < MaxApply
    /\ ns_lock = Free
    /\ ns_lock' = "apply"
    /\ \E us \in UserSettingsSet :
          /\ user_settings' = us
          /\ node_settings' = [miner_addr |-> us.miner_addr,
                               rpc_poll_interval |-> us.rpc_poll_interval]
    /\ apply_pc' = "miner" /\ applies' = applies + 1
    /\ logged' = <<LogEntry("Info", "Applying settings")>>
    /\ UNCHANGED <<block_state, MinerVars, bs_lock, PollVars, MineVars, ghost, call, log, metrics>>

\* line 292: server.miner(), a blocking lock taken with node_settings held
ApplyLockMiner ==
    /\ apply_pc = "miner"
    /\ CanLockMiner
    /\ IF miner_poisoned
       THEN \* lock().unwrap() panics: the task ends and drops the guard
            /\ apply_pc' = "idle" /\ ns_lock' = Free
            /\ user_settings' = NoUserSettings
            /\ UNCHANGED miner_lock
       ELSE /\ apply_pc' = "reconfig" /\ miner_lock' = "apply"
            /\ UNCHANGED <<ns_lock, user_settings>>
    /\ logged' = <<>>
    /\ UNCHANGED <<block_state, miner, miner_poisoned, node_settings, bs_lock,
                   PollVars, MineVars, applies, ghost, call, log, metrics>>

\* Miner::setup for the settings st: the engine it returns, "error" for
\* Err(Ocl), "panic" for expect("No such GPU")
SetupOutcomes(st) ==
    IF st.gpu_index \in Devices THEN {"built", "error"} ELSE {"panic"}

\* a mutant of UpdateGpuIndex: the engine is set up again on every call
UpdateGpuIndex_AlwaysSetup(m, gpu_index) ==
    LET st == [m.settings EXCEPT !.gpu_index = gpu_index] IN
    {[outcome |-> o,
      miner |-> IF o = "built"
                THEN [settings |-> st, build |-> m.build + 1] ELSE m] :
        o \in SetupOutcomes(st)}

\* a mutant of UpdateGpuIndex: the new engine is set up from the settings of
\* the configuration, not from the current ones
UpdateGpuIndex_ConfigSettings(m, gpu_index) ==
    IF m.settings.gpu_index = gpu_index
    THEN {[outcome |-> "same", miner |-> m]}
    ELSE LET st == [kernel_size |-> 2^ConfigKernelSize,
                    inner_iter_size |-> InnerIterSize, gpu_index |-> gpu_index] IN
         {[outcome |-> o,
           miner |-> IF o = "built"
                     THEN [settings |-> st, build |-> m.build + 1] ELSE m] :
             o \in SetupOutcomes(st)}

\* Miner::update_gpu_index: the Miner after it, with the outcome
UpdateGpuIndex(m, gpu_index) ==
    IF m.settings.gpu_index = gpu_index
    THEN {[outcome |-> "same", miner |-> m]}
    ELSE LET st == [m.settings EXCEPT !.gpu_index = gpu_index] IN
         {[outcome |-> o,
           miner |-> IF o = "built"
                     THEN [settings |-> st, build |-> m.build + 1] ELSE m] :
             o \in SetupOutcomes(st)}

\* lines 293-297 and the end of the task
ApplyReconfigure ==
    /\ apply_pc = "reconfig"
    /\ LET m1 == [miner EXCEPT !.settings = SetIntensity(@, user_settings.intensity)] IN
       \E r \in UpdateGpuIndex(m1, user_settings.gpu_index) :
          /\ miner' = r.miner
          /\ miner_poisoned' = (r.outcome = "panic")
          /\ logged' = IF r.outcome = "error"
                       THEN <<LogEntry("Error", "Ocl error")>> ELSE <<>>
    /\ miner_lock' = Free /\ ns_lock' = Free
    /\ apply_pc' = "idle" /\ user_settings' = NoUserSettings
    /\ UNCHANGED <<block_state, node_settings, bs_lock, PollVars, MineVars,
                   applies, ghost, call, log, metrics>>

Next == PollSend \/ PollTransportError \/ PollResponse \/ PollStore
        \/ MineBegin \/ MineSpawn \/ MineDispatchReturn \/ MineRelock
        \/ MineSubmitSend \/ MineSubmitReturn
        \/ ApplyNodeSettings \/ ApplyLockMiner \/ ApplyReconfigure

Spec == Init /\ [][Next]_vars

(***************************************************************************)
(* Calls of the pure functions of miner.rs on inputs drawn from bounded    *)
(* sets: the server stays as constructed, `call` holds one call            *)
(***************************************************************************)
NoArg == [i \in 1..HashBytes |-> 0]

\* the candidate check on every hash and target over 0..MaxByte
CheckInputs ==
    {[op |-> "below_target", hash |-> h, target |-> t,
      settings |-> [kernel_size |-> 1, inner_iter_size |-> 1, gpu_index |-> 0],
      work |-> WorkDefault, dev |-> [error |-> TRUE, vec |-> <<>>],
      arg |-> None, done |-> FALSE, result |-> None] :
        h \in [1..HashBytes -> 0..MaxByte], t \in [1..HashBytes -> 0..MaxByte]}

\* find_nonce at nonce_idx 0 on every output buffer over 0..MaxRaw, for the
\* templates of two tips and every target
ScanInputs ==
    {[op |-> "find_nonce", hash |-> NoArg, target |-> NoArg,
      settings |-> [kernel_size |-> 2^ConfigKernelSize,
                    inner_iter_size |-> InnerIterSize, gpu_index |-> 0],
      work |-> SetBigNonce(WorkFromHeader(Header(p, 1), t), bn),
      dev |-> [error |-> FALSE, vec |-> v],
      arg |-> None, done |-> FALSE, result |-> None] :
        p \in 0..1, t \in [1..HashBytes -> Byte], bn \in BigNonces,
        v \in [1..FlagIdx -> 0..MaxRaw]}

\* find_nonce at every nonce_idx and every kernel size, on a device that
\* fails, finds nothing, or fills the first slot
BaseInputs ==
    {[op |-> "find_nonce", hash |-> NoArg, target |-> NoArg,
      settings |-> [kernel_size |-> 2^k, inner_iter_size |-> InnerIterSize,
                    gpu_index |-> 0],
      work |-> [WorkFromHeader(Header(0, 1), [i \in 1..HashBytes |-> 1])
                    EXCEPT !.nonce_idx = idx],
      dev |-> d, arg |-> None, done |-> FALSE, result |-> None] :
        k \in Intensities, idx \in 0..U32Max,
        d \in {[error |-> TRUE, vec |-> <<>>],
               [error |-> FALSE, vec |-> [i \in 1..FlagIdx |-> 0]],
               [error |-> FALSE,
                vec |-> [i \in 1..FlagIdx |-> IF i \in {1, FlagIdx} THEN 1 ELSE 0]]}}

\* an input record for the calls that take one argument
ArgInput(op, arg) ==
    [op |-> op, hash |-> NoArg, target |-> NoArg,
     settings |-> [kernel_size |-> 1, inner_iter_size |-> 1, gpu_index |-> 0],
     work |-> WorkDefault, dev |-> [error |-> TRUE, vec |-> <<>>],
     arg |-> arg, done |-> FALSE, result |-> None]

\* submit_block on every response
SubmitInputs == {ArgInput("submit_block", resp) : resp \in SubmitResponses}

\* an iteration of the search loop at every nonce_idx and every kernel size,
\* on the devices of BaseInputs
IterationInputs == {[c EXCEPT !.op = "iteration"] : c \in BaseInputs}

\* update_next_block on every response of the node's first poll, and on a
\* template served with status 401
PollInputs ==
    {ArgInput("update_next_block", r) :
        r \in Responses(1)
               \cup {[status |-> 401, json |-> TRUE, result |-> Some(raw)] :
                        raw \in RawTemplates(1)}}

InitFind ==
    /\ InitServer(ConfigKernelSize)
    /\ call \in CheckInputs \cup ScanInputs \cup BaseInputs \cup SubmitInputs
                \cup PollInputs \cup IterationInputs
    /\ log = InitLogState
    /\ metrics = InitMetricsState

\* the loop of find_nonce's lines 222-229 on call.hash and call.target
CallBelowTarget ==
    /\ call.op = "below_target" /\ ~call.done
    /\ call' = [call EXCEPT !.done = TRUE,
                            !.result = BelowTarget(call.hash, call.target)]
    /\ UNCHANGED <<ServerVars, log, metrics>>

\* Miner::find_nonce(&work, log) on a device that behaves as call.dev
CallFindNonce ==
    /\ call.op = "find_nonce" /\ ~call.done
    /\ call' = [call EXCEPT !.done = TRUE,
                            !.result = FindNonce(call.settings, call.work, call.dev)]
    /\ UNCHANGED <<ServerVars, log, metrics>>

\* submit_block(server, block) when the node answers call.arg
CallSubmitBlock ==
    /\ call.op = "submit_block" /\ ~call.done
    /\ call' = [call EXCEPT !.done = TRUE, !.result = SubmitBlock(call.arg)]
    /\ UNCHANGED <<ServerVars, log, metrics>>

\* the closure given to spawn_blocking (lib.rs:245-259) on a miner with the
\* settings, and what the iteration then adds to metrics_nonces (lib.rs:261,
\* 279-281): num is the second component of the closure's Ok value, added
\* is 0 when the `?` of line 261 or a panic ends the iteration before
\* fetch_add
SearchIteration(settings, w, dev) ==
    IF ~HasNoncesLeft(settings, w)
    THEN [outcome |-> "exhausted", dispatched |-> FALSE, nonce |-> None,
          num |-> 0, added |-> 0]
    ELSE LET r == FindNonce(settings, w, dev)
             returned == r.outcome \in {"ok", "overflow"}
             num == IF returned THEN NumNoncesPerSearch(settings) ELSE 0
         IN [outcome |-> r.outcome, dispatched |-> r.dispatched, nonce |-> r.nonce,
             num |-> num, added |-> num]

\* one iteration of mine_some_nonces on call.work, from the closure to the
\* fetch_add, on a device that behaves as call.dev
CallSearchIteration ==
    /\ call.op = "iteration" /\ ~call.done
    /\ call' = [call EXCEPT !.done = TRUE,
                            !.result = SearchIteration(call.settings, call.work,
                                                       call.dev)]
    /\ UNCHANGED <<ServerVars, log, metrics>>

\* update_next_block(server) when the node answers call.arg
CallUpdateNextBlock ==
    /\ call.op = "update_next_block" /\ ~call.done
    /\ call' = [call EXCEPT !.done = TRUE,
                            !.result = UpdateNextBlock(block_state, call.arg)]
    /\ UNCHANGED <<ServerVars, log, metrics>>

NextFind == CallBelowTarget \/ CallFindNonce \/ CallSubmitBlock
            \/ CallUpdateNextBlock \/ CallSearchIteration

SpecFind == InitFind /\ [][NextFind]_vars

(***************************************************************************)
(* The dispatches on one adopted block: the iterations of mine_some_nonces *)
(* between two adoptions, with the settings-apply tasks' set_intensity     *)
(***************************************************************************)
\* a block has just been adopted: Work::from_header, on the engine built by
\* from_config; no nonce of the block was searched
InitSearch ==
    /\ InitServer(ConfigKernelSize)
    /\ call = [op |-> "search",
               settings |-> [kernel_size |-> 2^ConfigKernelSize,
                             inner_iter_size |-> InnerIterSize, gpu_index |-> 0],
               work |-> WorkFromHeader(Header(0, 1), [i \in 1..HashBytes |-> 1]),
               searched |-> {}, overlapped |-> FALSE]
    /\ log = InitLogState
    /\ metrics = InitMetricsState

\* an iteration whose find_nonce dispatches: the kernel covers the range from
\* its base, and line 278 increments nonce_idx
SearchDispatch ==
    /\ call.op = "search"
    /\ HasNoncesLeft(call.settings, call.work)
    /\ PreDispatch(call.settings, call.work) \notin {"panic", "overflow"}
    /\ \E r \in IncNonceIdx([current_work |-> call.work]) :
          /\ r # None
          /\ call' = [call EXCEPT
                 !.work = Unwrap(r).current_work,
                 !.searched = @ \cup NonceRange(call.settings, call.work),
                 !.overlapped =
                     @ \/ (NonceRange(call.settings, call.work) \cap call.searched # {})]
    /\ UNCHANGED <<ServerVars, log, metrics>>

\* an iteration that skips the dispatch (range exhausted, or base overflow):
\* only line 278 takes effect
SearchSkip ==
    /\ call.op = "search"
    /\ \/ ~HasNoncesLeft(call.settings, call.work)
       \/ PreDispatch(call.settings, call.work) = "overflow"
    /\ \E r \in IncNonceIdx([current_work |-> call.work]) :
          /\ r # None
          /\ call' = [call EXCEPT !.work = Unwrap(r).current_work]
    /\ UNCHANGED <<ServerVars, log, metrics>>

\* a settings-apply task between two iterations: miner.set_intensity
SearchSetIntensity(intensity) ==
    /\ call.op = "search"
    /\ call.settings.kernel_size # 2^intensity
    /\ call' = [call EXCEPT !.settings = SetIntensity(@, intensity)]
    /\ UNCHANGED <<ServerVars, log, metrics>>

NextSearch ==
    \/ SearchDispatch \/ SearchSkip
    \/ \E intensity \in Intensities : SearchSetIntensity(intensity)

SpecSearch == InitSearch /\ [][NextSearch]_vars

NextLog ==
    \/ \E p \in Producers : LogLock(p) \/ LogPush(p)
    \/ \E c \in Collectors : GetLock(c) \/ GetDrain(c) \/ GetClear(c)

\* concurrent callers of Log::log and Log::get_logs_and_clear on one Log
SpecLog == Init /\ [][NextLog]_vars

NextMetrics ==
    \/ \E t \in Clock : ClockSet(t)
    \/ \E n \in NoncesSearched : MetricsAdd(n)
    \/ MetricsElapsed \/ MetricsReport \/ MetricsStamp

\* the metrics steps of successive search-loop iterations under a system clock
\* that can be set
SpecMetrics == Init /\ [][NextMetrics]_vars

(***************************************************************************)
(* SHA-256 at full width: Sha256 of src/src/sha256.rs and lotus_hash of    *)
(* lotus-miner-lib/src/sha256.rs on real bytes (0..255).  A u32 is the     *)
(* pair <<high 16 bits, low 16 bits>>.  sha2::Sha256::digest (an external  *)
(* crate) is the padding of the message followed by the compression of     *)
(* update_prepad on each 64-byte block.                                    *)
(***************************************************************************)
RECURSIVE Xor16(_, _)
Xor16(a, b) ==
    IF a = 0 THEN b ELSE IF b = 0 THEN a
    ELSE ((a + b) % 2) + 2 * Xor16(a \div 2, b \div 2)

RECURSIVE And16(_, _)
And16(a, b) ==
    IF a = 0 \/ b = 0 THEN 0
    ELSE ((a % 2) * (b % 2)) + 2 * And16(a \div 2, b \div 2)

\* the operators ^, & and ! on u32
Xor(x, y) == <<Xor16(x[1], y[1]), Xor16(x[2], y[2])>>
And(x, y) == <<And16(x[1], y[1]), And16(x[2], y[2])>>
Not(x) == <<2^16 - 1 - x[1], 2^16 - 1 - x[2]>>

\* u32::wrapping_add
WrappingAdd(x, y) ==
    LET lo == x[2] + y[2] IN
    <<(x[1] + y[1] + lo \div 2^16) % 2^16, lo % 2^16>>

\* x >> n on u32
Shr(x, n) ==
    IF n >= 16 THEN <<0, x[1] \div 2^(n - 16)>>
    ELSE <<x[1] \div 2^n, (x[2] \div 2^n) + (x[1] % 2^n) * 2^(16 - n)>>

\* u32::rotate_right
RotateRight(x, n) ==
    IF n >= 16
    THEN LET r == n - 16 IN
         <<(x[2] \div 2^r) + (x[1] % 2^r) * 2^(16 - r),
           (x[1] \div 2^r) + (x[2] % 2^r) * 2^(16 - r)>>
    ELSE <<(x[1] \div 2^n) + (x[2] % 2^n) * 2^(16 - n),
           (x[2] \div 2^n) + (x[1] % 2^n) * 2^(16 - n)>>

\* u32::from_be_bytes and u32::to_be_bytes
FromBeBytes(b) == <<b[1] * 256 + b[2], b[3] * 256 + b[4]>>
ToBeBytes(x) == <<x[1] \div 256, x[1] % 256, x[2] \div 256, x[2] % 256>>

SHA256_K == <<
    <<17034, 12184>>, <<28983, 17553>>, <<46528, 64463>>, <<59829, 56229>>,
    <<14678, 49755>>, <<23025, 4593>>, <<37439, 33444>>, <<43804, 24277>>,
    <<55303, 43672>>, <<4739, 23297>>, <<9265, 34238>>, <<21772, 32195>>,
    <<29374, 23924>>, <<32990, 45566>>, <<39900, 1703>>, <<49563, 61812>>,
    <<58523, 27073>>, <<61374, 18310>>, <<4033, 40390>>, <<9228, 41420>>,
    <<11753, 11375>>, <<19060, 33962>>, <<23728, 43484>>, <<30457, 35034>>,
    <<38974, 20818>>, <<43057, 50797>>, <<45059, 10184>>, <<48985, 32711>>,
    <<50912, 3059>>, <<54695, 37191>>, <<1738, 25425>>, <<5161, 10599>>,
    <<10167, 2693>>, <<11803, 8504>>, <<19756, 28156>>, <<21304, 3347>>,
    <<25866, 29524>>, <<30314, 2747>>, <<33218, 51502>>, <<37490, 11397>>,
    <<41663, 59553>>, <<43034, 26187>>, <<49739, 35696>>, <<51052, 20899>>,
    <<53650, 59417>>, <<54937, 1572>>, <<62478, 13701>>, <<4202, 41072>>,
    <<6564, 49430>>, <<7735, 27656>>, <<10056, 30540>>, <<13488, 48309>>,
    <<14620, 3251>>, <<20184, 43594>>, <<23452, 51791>>, <<26670, 28659>>,
    <<29839, 33518>>, <<30885, 25455>>, <<33992, 30740>>, <<36039, 520>>,
    <<37054, 65530>>, <<42064, 27883>>, <<48889, 41975>>, <<50801, 30962>>
>>

\* Sha256::new()
Sha256New == <<
    <<27145, 58983>>, <<47975, 44677>>, <<15470, 62322>>, <<42319, 62778>>,
    <<20750, 21119>>, <<39685, 26764>>, <<8067, 55723>>, <<23520, 52505>>
>>

\* a mutant of ScheduleS0: the shift is a rotation
ScheduleS0_RotateOnly(x) ==
    Xor(Xor(RotateRight(x, 7), RotateRight(x, 18)), RotateRight(x, 3))

\* lines 34-37: s0 and s1 of the message schedule
ScheduleS0(x) == Xor(Xor(RotateRight(x, 7), RotateRight(x, 18)), Shr(x, 3))
ScheduleS1(x) == Xor(Xor(RotateRight(x, 17), RotateRight(x, 19)), Shr(x, 10))

\* lines 30-32: the 16 big-endian words of a 64-byte chunk
ChunkWords(chunk) ==
    [i \in 1..16 |-> FromBeBytes(SubSeq(chunk, 4 * i - 3, 4 * i))]

\* lines 38-41: the next word of the schedule w[0..i) (w[i - 16] is w[1] of
\* the last sixteen words, counted from 1)
NextScheduleWord(w) ==
    LET i == Len(w) + 1 IN
    WrappingAdd(WrappingAdd(WrappingAdd(w[i - 16], ScheduleS0(w[i - 15])),
                            w[i - 7]),
                ScheduleS1(w[i - 2]))

\* lines 46-63: one round on the working variables v = <<a, .., h>>
Round(v, k, wi) ==
    LET a == v[1]
        b == v[2]
        c == v[3]
        d == v[4]
        e == v[5]
        f == v[6]
        g == v[7]
        h == v[8]
        s1 == Xor(Xor(RotateRight(e, 6), RotateRight(e, 11)), RotateRight(e, 25))
        ch == Xor(And(e, f), And(Not(e), g))
        temp1 == WrappingAdd(WrappingAdd(WrappingAdd(WrappingAdd(h, s1), ch), k), wi)
        s0 == Xor(Xor(RotateRight(a, 2), RotateRight(a, 13)), RotateRight(a, 22))
        maj == Xor(Xor(And(a, b), And(a, c)), And(b, c))
        temp2 == WrappingAdd(s0, maj)
    IN <<WrappingAdd(temp1, temp2), a, b, c, WrappingAdd(d, temp1), e, f, g>>

\* Sha256::hash: the state words, big-endian, one after the other
Sha256Hash(state) ==
    ToBeBytes(state[1]) \o ToBeBytes(state[2]) \o ToBeBytes(state[3])
        \o ToBeBytes(state[4]) \o ToBeBytes(state[5]) \o ToBeBytes(state[6])
        \o ToBeBytes(state[7]) \o ToBeBytes(state[8])

\* the padding of SHA-256, as the tests of sha256.rs write it out: the byte
\* 0x80, zero bytes up to 8 short of a multiple of 64, and the length of the
\* message in bits as a big-endian u64 (messages here are shorter than 2^13)
Pad(msg) ==
    LET n == Len(msg) IN
    msg \o <<128>> \o [i \in 1..((119 - n) % 64) |-> 0]
        \o <<0, 0, 0, 0, 0, 0, (8 * n) \div 256, (8 * n) % 256>>

\* the 64-byte chunks of a padded message
Chunks(padded) ==
    [j \in 1..(Len(padded) \div 64) |-> SubSeq(padded, 64 * j - 63, 64 * j)]

\* a mutant of PowLayer: the hash of the tail comes first
PowLayer_HashFirst(header, tx_layer_hash) ==
    tx_layer_hash \o SubSeq(header, 33, 52)

\* lotus_hash, lines 4-12: the three messages it digests
TxLayer(header) == SubSeq(header, 53, 160)
PowLayer(header, tx_layer_hash) == SubSeq(header, 33, 52) \o tx_layer_hash
ChainLayer(header, pow_layer_hash) == SubSeq(header, 1, 32) \o pow_layer_hash

\* test_sha: the message b"abc" with its padding
TestShaPadded ==
    <<97, 98, 99, 128, 0, 0, 0, 0, 0, 0, 0, 0, 0, 0, 0, 0, 0, 0, 0, 0, 0, 0,
      0, 0, 0, 0, 0, 0, 0, 0, 0, 0, 0, 0, 0, 0, 0, 0, 0, 0, 0, 0, 0, 0, 0, 0,
      0, 0, 0, 0, 0, 0, 0, 0, 0, 0, 0, 0, 0, 0, 0, 0, 0, 24>>

\* test_sha_header: an 80-byte header with its padding
TestShaHeaderPadded ==
    <<0, 0, 0, 32, 3, 104, 46, 52, 32, 114, 125, 172, 204, 188, 232, 88, 189,
      216, 63, 198, 191, 31, 160, 214, 74, 4, 51, 28, 230, 160, 247, 7, 0, 0,
      0, 0, 208, 15, 181, 195, 62, 191, 249, 253, 135, 112, 88, 122, 164, 133,
      240, 6, 133, 215, 251, 123, 32, 97, 191, 202, 76, 48, 166, 166, 139, 25,
      5, 127, 194, 122, 120, 96, 156, 13, 35, 28, 0, 0, 0, 0, 128, 0, 0, 0, 0,
      0, 0, 0, 0, 0, 0, 0, 0, 0, 0, 0, 0, 0, 0, 0, 0, 0, 0, 0, 0, 0, 0, 0, 0,
      0, 0, 0, 0, 0, 0, 0, 0, 0, 0, 0, 0, 0, 0, 0, 0, 0, 2, 128>>

\* test_lotus_hash: the header, and the hash the test expects (it reverses
\* the output of lotus_hash before comparing)
TestLotusHeader ==
    <<0, 0, 0, 0, 0, 0, 0, 0, 0, 0, 0, 0, 0, 0, 0, 0, 0, 0, 0, 0, 0, 0, 0, 0,
      0, 0, 0, 0, 0, 0, 0, 0, 255, 255, 0, 29, 0, 194, 115, 96, 0, 0, 0, 0,
      65, 198, 221, 211, 3, 0, 0, 0, 1, 14, 1, 0, 0, 0, 0, 0, 0, 0, 0, 0, 0,
      0, 0, 0, 0, 0, 0, 0, 0, 0, 0, 0, 0, 0, 0, 0, 0, 0, 0, 0, 0, 0, 0, 0, 0,
      0, 0, 0, 0, 0, 0, 0, 147, 71, 85, 214, 14, 144, 94, 200, 119, 143, 85,
      65, 100, 189, 155, 127, 33, 171, 108, 21, 207, 237, 41, 86, 18, 58, 114,
      42, 111, 111, 166, 46, 20, 6, 224, 88, 129, 226, 153, 54, 119, 102, 211,
      19, 226, 108, 5, 86, 78, 201, 27, 247, 33, 211, 23, 38, 189, 110, 70,
      230, 6, 137, 83, 154>>

TestLotusHashReversed ==
    <<0, 0, 0, 0, 98, 117, 220, 80, 57, 218, 133, 98, 7, 115, 243, 34, 61, 98,
      151, 89, 73, 95, 128, 180, 154, 56, 29, 121, 202, 231, 124, 17>>

\* the calls of the tests, and further calls: update_prepad on the empty
\* message and on 55 and 56 bytes b'a' (the longest one-block and the
\* shortest two-block message), lotus_hash on the header of bytes 0..159 and
\* on the zero header.  digest is the SHA-256 digest of the unpadded message
\* (FIPS 180-4), and for lotus_hash the digest of the layers as follows:
\* SHA256(header[0..32] || SHA256(header[32..52] || SHA256(header[52..160]))).
ShaJob(fn, len, input, digest) ==
    [op |-> "sha256", fn |-> fn, len |-> len, input |-> input, digest |-> digest,
     pc |-> "start", layer |-> 1, layers |-> <<>>, chunks |-> <<>>,
     state |-> Sha256New, w |-> <<>>, v |-> Sha256New, i |-> 0, out |-> None]

ShaJobs ==
    {ShaJob("update_prepad", 3, TestShaPadded,
      <<186, 120, 22, 191, 143, 1, 207, 234, 65, 65, 64, 222, 93, 174, 34, 35,
      176, 3, 97, 163, 150, 23, 122, 156, 180, 16, 255, 97, 242, 0, 21, 173>>),
     ShaJob("update_prepad", 80, TestShaHeaderPadded,
      <<173, 43, 8, 58, 130, 138, 40, 161, 185, 251, 208, 90, 213, 112, 188,
      133, 6, 57, 250, 166, 36, 48, 165, 117, 51, 45, 119, 118, 93, 72, 0, 31>>),
     ShaJob("update_prepad", 0, Pad(<<>>),
      <<227, 176, 196, 66, 152, 252, 28, 20, 154, 251, 244, 200, 153, 111, 185,
      36, 39, 174, 65, 228, 100, 155, 147, 76, 164, 149, 153, 27, 120, 82,
      184, 85>>),
     ShaJob("update_prepad", 55, Pad([i \in 1..55 |-> 97]),
      <<159, 67, 144, 248, 211, 12, 45, 217, 46, 201, 240, 149, 182, 94, 43,
      154, 233, 176, 169, 37, 165, 37, 142, 36, 28, 159, 30, 145, 15, 115, 67,
      24>>),
     ShaJob("update_prepad", 56, Pad([i \in 1..56 |-> 97]),
      <<179, 84, 57, 164, 172, 111, 9, 72, 182, 214, 249, 227, 198, 175, 15, 95,
      89, 12, 226, 15, 27, 222, 112, 144, 239, 121, 112, 104, 110, 198, 115,
      138>>),
     ShaJob("lotus_hash", 160, TestLotusHeader, Reverse(TestLotusHashReversed)),
     ShaJob("lotus_hash", 160, [i \in 1..160 |-> i - 1],
      <<105, 237, 211, 126, 54, 101, 199, 147, 222, 33, 24, 46, 207, 251, 77,
      180, 249, 40, 115, 90, 124, 214, 219, 134, 207, 200, 141, 136, 241, 219,
      96, 113>>),
     ShaJob("lotus_hash", 160, [i \in 1..160 |-> 0],
      <<244, 106, 162, 173, 222, 251, 106, 245, 92, 196, 129, 0, 46, 19, 100,
      229, 123, 45, 130, 171, 90, 213, 174, 23, 164, 151, 27, 123, 164, 177,
      35, 146>>)}

InitSha ==
    /\ InitServer(ConfigKernelSize)
    /\ call \in ShaJobs
    /\ log = InitLogState
    /\ metrics = InitMetricsState

\* the message of the digest about to start: the pre-padded message of the
\* caller of update_prepad, or the padded layer of lotus_hash
ShaMessage ==
    IF call.fn = "update_prepad" THEN call.input
    ELSE Pad(CASE call.layer = 1 -> TxLayer(call.input)
               [] call.layer = 2 -> PowLayer(call.input, call.layers[1])
               [] call.layer = 3 -> ChainLayer(call.input, call.layers[2]))

\* Sha256::new(), and the caller's split of the padded message into chunks
ShaStart ==
    /\ call.op = "sha256" /\ call.pc = "start"
    /\ call' = [call EXCEPT !.state = Sha256New, !.chunks = Chunks(ShaMessage),
                            !.pc = "load"]
    /\ UNCHANGED <<ServerVars, log, metrics>>

\* update_prepad, lines 29-32
ShaLoad ==
    /\ call.op = "sha256" /\ call.pc = "load"
    /\ call' = [call EXCEPT !.w = ChunkWords(Head(call.chunks)), !.pc = "schedule"]
    /\ UNCHANGED <<ServerVars, log, metrics>>

\* update_prepad, lines 33-42, one iteration; after the last one, line 44
ShaSchedule ==
    /\ call.op = "sha256" /\ call.pc = "schedule"
    /\ LET w2 == Append(call.w, NextScheduleWord(call.w)) IN
       call' = IF Len(w2) < 64
               THEN [call EXCEPT !.w = w2]
               ELSE [call EXCEPT !.w = w2, !.v = call.state, !.i = 1,
                                 !.pc = "rounds"]
    /\ UNCHANGED <<ServerVars, log, metrics>>

\* update_prepad, lines 45-64, one iteration
ShaRound ==
    /\ call.op = "sha256" /\ call.pc = "rounds"
    /\ call' = [call EXCEPT !.v = Round(call.v, SHA256_K[call.i], call.w[call.i]),
                            !.i = @ + 1,
                            !.pc = IF call.i = 64 THEN "add" ELSE "rounds"]
    /\ UNCHANGED <<ServerVars, log, metrics>>

\* update_prepad, lines 65-68, and the caller's move to its next chunk
ShaAdd ==
    /\ call.op = "sha256" /\ call.pc = "add"
    /\ call' = [call EXCEPT
           !.state = [j \in 1..8 |-> WrappingAdd(call.state[j], call.v[j])],
           !.chunks = Tail(@), !.w = <<>>, !.v = Sha256New, !.i = 0,
           !.pc = IF Tail(call.chunks) = <<>> THEN "hash" ELSE "load"]
    /\ UNCHANGED <<ServerVars, log, metrics>>

\* Sha256::hash(); lotus_hash goes on to its next layer and returns the
\* digest of the third
ShaHash ==
    /\ call.op = "sha256" /\ call.pc = "hash"
    /\ call' = IF call.fn = "lotus_hash" /\ call.layer < 3
               THEN [call EXCEPT !.layers = Append(@, Sha256Hash(call.state)),
                                 !.layer = @ + 1, !.pc = "start"]
               ELSE [call EXCEPT !.out = Some(Sha256Hash(call.state)),
                                 !.pc = "done"]
    /\ UNCHANGED <<ServerVars, log, metrics>>

NextSha == ShaStart \/ ShaLoad \/ ShaSchedule \/ ShaRound \/ ShaAdd \/ ShaHash

\* the calls of Sha256::update_prepad and of lotus_hash, loop iteration by
\* loop iteration
SpecSha == InitSha /\ [][NextSha]_vars

(***************************************************************************)
(* Properties                                                              *)
(***************************************************************************)
RECURSIVE LeValue(_)
\* the unsigned integer a byte array stored least significant byte first denotes
LeValue(bs) ==
    IF bs = <<>> THEN 0 ELSE Head(bs) + 256 * LeValue(Tail(bs))

\* C7: for every hash and target, both least significant byte first, the
\* candidate check accepts iff the hash read as an unsigned integer is
\* strictly less than the target; a hash equal to the target is rejected.
C7_CheckIsStrictlyLess ==
    (call.op = "below_target" /\ call.done) =>
        (call.result <=> LeValue(call.hash) < LeValue(call.target))

\* an accepted hash whose least significant byte exceeds the target's
C7_Witness ==
    /\ call.op = "below_target" /\ call.done
    /\ call.result = TRUE
    /\ call.hash[1] > call.target[1]

\* slot i of the call's output buffer holds a candidate whose header hashes
\* below the call's target
SlotQualifies(i) ==
    LET nonce == SwapBytes(call.dev.vec[i]) IN
    /\ nonce # 0
    /\ LeValue(LotusHash(SpliceNonce(call.work.header, nonce)))
           < LeValue(call.work.target)

\* the u64 find_nonce returns for the candidate of slot i
SlotNonce(i) ==
    FromLeBytes(SpliceNonce(call.work.header, SwapBytes(call.dev.vec[i])).nonce)

\* C8: when the flag is set, find_nonce returns the nonce of the lowest
\* scanned slot that is non-zero and whose header hash is below the target,
\* none when no scanned slot qualifies, and never a nonce whose header hash
\* is not below the target.
C8_FirstQualifyingSlot ==
    (/\ call.op = "find_nonce" /\ call.done
     /\ call.result.outcome = "ok"
     /\ call.dev.vec[FlagIdx] # 0) =>
        LET q == {i \in 1..ScanLen : SlotQualifies(i)} IN
        /\ q = {} => call.result.nonce = None
        /\ q # {} =>
              \E i \in q : /\ \A j \in q : i <= j
                           /\ call.result.nonce = Some(SlotNonce(i))
        /\ IsSome(call.result.nonce) =>
              LeValue(LotusHash([call.work.header EXCEPT
                          !.nonce = ToLeBytes(Unwrap(call.result.nonce), U64Bytes)]))
                  < LeValue(call.work.target)

\* two scanned slots qualify with different nonces and the first is returned
C8_Witness ==
    /\ call.op = "find_nonce" /\ call.done
    /\ call.result.outcome = "ok"
    /\ call.dev.vec[FlagIdx] # 0
    /\ SlotQualifies(1) /\ SlotQualifies(2)
    /\ SlotNonce(1) # SlotNonce(2)
    /\ call.result.nonce = Some(SlotNonce(1))

\* C1: every block sent in a submitblock request has the header find_nonce
\* verified to hash below the target, which is the dispatched Work's header
\* with bytes 44..52 set to the returned nonce, and the body of the block
\* that Work was derived from, whatever the poll loop stored meanwhile.
C1_SubmittedIsSearched ==
    IsSome(request) =>
        LET b == Unwrap(request) IN
        /\ IsSome(ghost.dispatched) /\ IsSome(ghost.verified)
        /\ IsSome(ghost.adopted) /\ IsSome(found)
        /\ LET w == Unwrap(ghost.dispatched)
               a == Unwrap(ghost.adopted) IN
           /\ b.header = [w.header EXCEPT
                              !.nonce = ToLeBytes(Unwrap(found), U64Bytes)]
           /\ b.header = Unwrap(ghost.verified)
           /\ LeValue(LotusHash(b.header)) < LeValue(w.target)
           /\ w.header = [a.header EXCEPT !.nonce = w.header.nonce]
           /\ w.target = a.target
           /\ b.body = a.body

\* a block is in a submitblock request while a template polled after its
\* adoption is pending
C1_Witness ==
    /\ IsSome(request)
    /\ IsSome(block_state.next_block)
    /\ Unwrap(block_state.next_block).body # Unwrap(request).body

\* the blocks the search loop holds: adopted, being searched, being submitted
SearchBodies ==
    {Unwrap(o).body : o \in {x \in {ghost.adopted, block_state.current_block,
                                     block, request} : IsSome(x)}}

\* C2: a successful poll overwrites next_block, so the pending template is
\* the one of the most recent successful poll and an adoption takes that
\* one; a template overwritten before its adoption is never adopted,
\* searched or submitted.
C2_LatestTemplateWins ==
    /\ IsSome(block_state.next_block) => block_state.next_block = ghost.last_polled
    /\ ghost.adopted_latest
    /\ \A t \in ghost.overwritten :
          /\ t.body \notin SearchBodies
          /\ IsSome(ghost.dispatched) => Unwrap(ghost.dispatched).header.tail # t.header.tail

\* a template was overwritten while pending and the search loop is
\* dispatching on the one that replaced it
C2_Witness ==
    /\ ghost.overwritten # {}
    /\ mine_pc = "dispatch"
    /\ ghost.adopted = ghost.last_polled

HasError(entries) == \E i \in 1..Len(entries) : entries[i].severity = "Error"

\* C3: whatever a poll comes back with, the poll loop logs the failure and
\* goes on to the next poll; the poll loop task never ends.  A step of the
\* poll loop that ends a poll without storing a template is a failed poll.
C3_PollFailureLoggedAndRetried ==
    [][(/\ poll_pc \in {"inflight", "store"}
        /\ poll_pc' \notin {"inflight", "store"}
        /\ block_state'.next_block = block_state.next_block)
       => (poll_pc' = "start" /\ HasError(logged'))]_vars

\* the server with a device call that may never return: every step of the
\* tasks is taken when it stays possible, except the return of the dispatch
\* and the user's spawning of settings-apply tasks
SpecHung ==
    /\ Init /\ [][Next]_vars
    /\ WF_vars(PollSend) /\ WF_vars(PollTransportError \/ PollResponse)
    /\ WF_vars(PollStore)
    /\ WF_vars(MineBegin) /\ WF_vars(MineSpawn) /\ WF_vars(MineRelock)
    /\ WF_vars(MineSubmitSend) /\ WF_vars(MineSubmitReturn)
    /\ WF_vars(ApplyLockMiner) /\ WF_vars(ApplyReconfigure)

\* C4: with a dispatch in flight that never returns, the poll loop still
\* completes its poll cycles: a poll that is due is sent, and a response
\* that was received is handled and stored.
C4_PollCompletesDespiteHungDispatch ==
    /\ (poll_pc = "start" /\ polls < MaxPolls) ~> (poll_pc = "inflight")
    /\ (poll_pc = "store") ~> (poll_pc # "store")

\* C5: the Chain State lock is never held while a node request of its
\* holder or a GPU dispatch is in progress.
C5_NoIoUnderChainStateLock ==
    bs_lock = Free \/ mine_pc \notin {"dispatch", "submit", "submitted"}

\* C6: at most one operation uses the GPU engine at a time: set_intensity
\* and update_gpu_index never run while a dispatch is in flight, and the
\* holder of the miner mutex is the one operation that is using the engine.
C6_EngineExclusive ==
    /\ ~(mine_pc = "dispatch" /\ apply_pc = "reconfig")
    /\ mine_pc = "dispatch" <=> miner_lock = "mine"
    /\ apply_pc = "reconfig" <=> miner_lock = "apply"

\* a settings-apply task waits for the engine while a dispatch is in flight
C6_Witness ==
    /\ mine_pc = "dispatch"
    /\ apply_pc = "miner"

\* C9: for every nonce_idx, kernel size and inner iteration count,
\* find_nonce uses base = nonce_idx * (kernel_size * inner_iter_size) when
\* that product fits in a u32, and otherwise logs and returns none without
\* dispatching; it never aborts.
C9_BaseOrSkip ==
    (call.op = "find_nonce" /\ call.done) =>
        LET product == call.work.nonce_idx
                           * (call.settings.kernel_size * call.settings.inner_iter_size)
        IN /\ call.result.outcome # "panic"
           /\ IF product <= U32Max
              THEN /\ call.result.outcome \in {"ok", "error"}
                   /\ call.result.base = Some(product)
              ELSE /\ call.result.outcome = "overflow"
                   /\ ~call.result.dispatched
                   /\ call.result.nonce = None
                   /\ HasError(call.result.logs)

\* C10: once a dispatch was skipped because the nonce range of the current
\* block is exhausted, no dispatch is performed for that block again.
C10_NoDispatchAfterExhaustion ==
    ~(ghost.exhausted /\ mine_pc = "dispatch")

\* C11: every submitblock response takes exactly one outcome path: a null
\* result logs the acceptance, the reason "inconclusive" logs the orphan
\* race hint as Warn, any other reason logs the misconfiguration hint as
\* Error.
C11_SubmitOutcomeRouting ==
    (call.op = "submit_block" /\ call.done /\ ~call.result.err) =>
        LET logs == call.result.logs
            accepted == Count(logs, "Info", "BLOCK ACCEPTED!")
            orphan == Count(logs, "Warn", "orphan race")
            misconf == Count(logs, "Error", "misconfigured")
            res == call.arg.result
        IN /\ accepted + orphan + misconf = 1
           /\ accepted = 1 <=> res = None
           /\ orphan = 1 <=> res = Some("inconclusive")
           /\ misconf = 1 <=> (IsSome(res) /\ res # Some("inconclusive"))
           /\ Count(logs, "Error", "REJECTED BLOCK") = (IF IsSome(res) THEN 1 ELSE 0)

\* the node rejected the block with the reason "inconclusive"
C11_Witness ==
    /\ call.op = "submit_block" /\ call.done
    /\ call.arg.result = Some("inconclusive")
    /\ Count(call.result.logs, "Warn", "orphan race") = 1

\* C12: exactly one "Switched to new chain tip" event is logged for each
\* change of the previous-block hash of the block being mined, and none
\* for a block with the previous-block hash of the one mined before it: at
\* every adoption, the events logged since the last adoption are one when
\* the tip changes and zero when it does not.
C12_OneSwitchEventPerTipChange ==
    [][(/\ mine_pc = "start"
        /\ IsSome(block_state.next_block)
        /\ block_state'.next_block = None)
       => ghost.switch_events =
              (IF /\ IsSome(ghost.mined_tip)
                  /\ ghost.mined_tip # Some(PrevHash(Unwrap(block_state.next_block)))
               THEN 1 ELSE 0)]_vars

\* the entries the producers have pushed so far
Pushed == {e \in [thread : Producers, seq : 1..MaxLogs] :
               e.seq <= log.calls[e.thread]}
\* the entries returned by the calls so far, then the entries in the buffer
Delivered == log.returned \o log.logs

\* C13: under every interleaving of threads calling Log::log and threads
\* calling Log::get_logs_and_clear, every entry pushed is either in the buffer
\* or was returned by one call, and by one only (none lost, none returned
\* twice, none left in the buffer by the call that returned it); a call
\* returns exactly what the buffer holds when it empties it; and the entries of
\* one producer are returned in the order they were logged.
C13_EachEntryReturnedOnce ==
    /\ {Delivered[i] : i \in DOMAIN Delivered} = Pushed
    /\ \A i, j \in DOMAIN Delivered : i # j => Delivered[i] # Delivered[j]
    /\ \A i, j \in DOMAIN Delivered :
           (i < j /\ Delivered[i].thread = Delivered[j].thread)
               => Delivered[i].seq < Delivered[j].seq
    /\ \A c \in Collectors : log.pc[c] = "clear" => log.drained[c] = log.logs
    /\ IsSome(log.last_call)
           => Unwrap(log.last_call).returned = Unwrap(log.last_call).buffered

\* both collectors have returned, entries of both producers were returned in
\* a batch of two or more, and a later entry waits in the buffer
C13_Witness ==
    /\ \A c \in Collectors : log.calls[c] >= 1
    /\ \A p \in Producers : \E i \in DOMAIN log.returned : log.returned[i].thread = p
    /\ IsSome(log.last_call) /\ Len(Unwrap(log.last_call).returned) >= 2
    /\ log.logs # <<>>

\* C14: a hashrate sample is reported only in an iteration whose elapsed time
\* since the window start exceeds the report interval; when the iteration that
\* reported ends, the nonce counter is zero and the window start is later than
\* it was; and no step moves the window start backwards.
C14_SampleOnlyAfterIntervalAndWindowAdvances ==
    [][/\ metrics'.samples # metrics.samples
              => metrics.elapsed > ReportHashrateInterval
       /\ (metrics.pc = "stamp" /\ metrics'.pc = "add")
              => /\ metrics'.metrics_nonces = 0
                 /\ metrics'.metrics_timestamp > metrics.metrics_timestamp
       /\ metrics'.metrics_timestamp >= metrics.metrics_timestamp]_vars

\* C15: when a settings-apply task asks for another device and the engine is
\* not rebuilt (the device does not exist, or Miner::setup fails), the caller
\* gets an error, which it logs, and the engine built before stays in place
\* behind a mutex that is not poisoned (a poisoned one ends the search loop at
\* its next dispatch).
C15_FailedReconfigureIsAnError ==
    [][(/\ apply_pc = "reconfig" /\ apply_pc' = "idle"
        /\ user_settings.gpu_index # miner.settings.gpu_index
        /\ miner'.build = miner.build)
       => /\ HasError(logged')
          /\ ~miner_poisoned']_vars

\* the step in which a settings-apply task, holding the miner guard, runs
\* set_intensity and update_gpu_index and ends
ApplyStep == apply_pc = "reconfig" /\ apply_pc' = "idle"

\* C16: every settings-apply step that changes a setting of the miner
\* (kernel_size or the device index) builds the engine anew.  The step holds
\* the miner guard and nothing else builds an engine, so a dispatch after it
\* runs on a new engine exactly if the step built one.
C16_SettingChangeRebuildsEngine ==
    [][(ApplyStep /\ miner'.settings # miner.settings)
          => miner'.build = miner.build + 1]_vars

\* C16, as the code has it: the engine is built anew exactly in the steps that
\* change the device index; the intensity applied becomes the kernel_size of
\* the next dispatch in every case, on the engine already built when the
\* device index stays.
C16_RebuildOnlyOnDeviceChange ==
    [][ApplyStep
          => /\ miner'.settings.kernel_size = 2^user_settings.intensity
             /\ (miner'.build = miner.build + 1)
                    <=> (miner'.settings.gpu_index # miner.settings.gpu_index)
             /\ miner'.build \in {miner.build, miner.build + 1}]_vars

\* a dispatch runs with a kernel_size that a settings-apply task set, on the
\* engine built by from_config
C16_Witness ==
    /\ mine_pc = "dispatch" /\ applies >= 1
    /\ miner.build = 1
    /\ miner.settings.kernel_size # 2^ConfigKernelSize

\* the positions of the search loop inside an iteration, after its first step
InIteration == {"spawn", "dispatch", "relock", "submit", "submitted"}

\* C17: whatever the outcome of a search-loop iteration, the step that ends
\* the iteration takes the search loop back to the head of its loop: the
\* search-loop task never ends.
C17_SearchLoopStartsAnotherIteration ==
    [][(mine_pc \in InIteration /\ mine_pc' \notin InIteration)
          => mine_pc' = "start"]_vars

\* C18: on one adopted block, the nonce range of a dispatch shares no nonce
\* with the range of any dispatch made on the block before it, whatever
\* set_intensity calls ran in between.
C18_DispatchRangesDisjoint ==
    call.op = "search" => ~call.overlapped

\* C19: extra_nonce never decreases: a step that stores a template into
\* next_block (a step of the poll loop, the only one that leaves next_block
\* holding another block) increases it by exactly one, and every other step,
\* failed polls and the steps of the search loop included, leaves it as it is.
C19_ExtraNonceCountsStoredTemplates ==
    [][block_state'.extra_nonce =
           IF /\ IsSome(block_state'.next_block)
              /\ block_state'.next_block # block_state.next_block
           THEN block_state.extra_nonce + 1
           ELSE block_state.extra_nonce]_vars

\* one poll stored a template and one failed, and the search loop has adopted
\* the template
C19_Witness ==
    /\ polls = 2 /\ poll_pc = "start"
    /\ block_state.extra_nonce = 1
    /\ IsSome(block_state.current_block)
    /\ mine_pc = "dispatch"

\* C20: a step that leaves another block in next_block is a step of the poll
\* loop (its storing step); a step that empties next_block is a step of the
\* search loop (the start of an iteration); and a step that changes
\* current_block or current_work is a step of the search loop.  A step of
\* one task leaves the positions and locals of the other tasks as they are.
C20_BlockStateWriters ==
    [][/\ (/\ IsSome(block_state'.next_block)
           /\ block_state'.next_block # block_state.next_block)
              => (poll_pc = "store" /\ MineVars' = MineVars /\ ApplyVars' = ApplyVars)
       /\ (/\ IsSome(block_state.next_block)
           /\ block_state'.next_block = None)
              => (mine_pc = "start" /\ PollVars' = PollVars /\ ApplyVars' = ApplyVars)
       /\ (\/ block_state'.current_block # block_state.current_block
           \/ block_state'.current_work # block_state.current_work)
              => (/\ mine_pc \in {"start", "relock", "submitted"}
                  /\ PollVars' = PollVars /\ ApplyVars' = ApplyVars)]_vars

\* the poll loop has stored a template while the search loop, past its first
\* dispatch, works on the block it adopted before
C20_Witness ==
    /\ IsSome(block_state.next_block)
    /\ IsSome(block_state.current_block)
    /\ block_state.next_block # block_state.current_block
    /\ block_state.current_work.nonce_idx >= 1

\* C22: feeding the 64-byte blocks of a correctly padded message to
\* Sha256::update_prepad, from Sha256::new(), leaves a state whose hash() is
\* the SHA-256 digest of the unpadded message, for one-block and two-block
\* messages; the padded messages of the tests are the padded messages.
C22_UpdatePrepadIsSha256 ==
    (call.op = "sha256" /\ call.fn = "update_prepad")
        => /\ Len(call.input) \in {64, 128}
           /\ call.pc = "done" => call.out = Some(call.digest)
           /\ call.input \in {TestShaPadded, TestShaHeaderPadded}
                  => call.input = Pad(SubSeq(call.input, 1, call.len))

\* update_prepad has run on both blocks of the 80-byte header of
\* test_sha_header
C22_Witness ==
    /\ call.op = "sha256" /\ call.fn = "update_prepad"
    /\ call.input = TestShaHeaderPadded
    /\ call.pc = "done" /\ IsSome(call.out)

\* C21: lotus_hash(header) is the SHA-256 digest of header[0..32] followed by
\* the digest of header[32..52] followed by the digest of header[52..160]; it
\* depends on the header alone; and on the header of test_lotus_hash it
\* returns the hash the test expects, byte-reversed.
C21_LotusHashLayers ==
    (call.op = "sha256" /\ call.fn = "lotus_hash" /\ call.pc = "done")
        => /\ call.out = Some(call.digest)
           /\ Len(call.digest) = 32
           /\ call.input = TestLotusHeader
                  => Reverse(Unwrap(call.out)) = TestLotusHashReversed

\* lotus_hash has returned on the header of test_lotus_hash
C21_Witness ==
    /\ call.op = "sha256" /\ call.fn = "lotus_hash"
    /\ call.input = TestLotusHeader
    /\ call.pc = "done" /\ IsSome(call.out)

\* C23: no GPU dispatch is started, and none is in flight, while
\* current_block is empty: the search loop is past its idle check only with a
\* current block.
C23_NoDispatchWithoutCurrentBlock ==
    mine_pc \in {"spawn", "dispatch"} => IsSome(block_state.current_block)

\* the search loop is back at the head of its loop after the block it had
\* adopted was taken for submission; no template is pending, so it idles
C23_Witness ==
    /\ mine_pc = "start"
    /\ block_state.extra_nonce >= 1
    /\ block_state.current_block = None
    /\ block_state.next_block = None

\* C24: the adoption of a pending block is one step, taken with the Chain
\* State lock free for the search loop to hold: after it next_block is empty,
\* current_block is the block that was pending (the previous current block
\* is gone), and current_work has that block's header and target with
\* nonce_idx = 0.
C24_AdoptionIsAtomic ==
    [][(IsSome(block_state.next_block) /\ block_state'.next_block = None)
          => /\ bs_lock = Free /\ mine_pc = "start"
             /\ block_state'.current_block = block_state.next_block
             /\ block_state'.current_work =
                    [header |-> Unwrap(block_state.next_block).header,
                     target |-> Unwrap(block_state.next_block).target,
                     nonce_idx |-> 0]]_vars

\* the template of the second poll has just been adopted: the search loop is
\* about to dispatch its Work
C24_Witness ==
    /\ mine_pc = "spawn"
    /\ block_state.next_block = None
    /\ IsSome(block_state.current_block)
    /\ Unwrap(block_state.current_block).body = <<2>>
    /\ block_state.current_work.nonce_idx = 0
    /\ ghost.adopted = block_state.current_block

\* C25: between two adoptions nonce_idx grows by exactly one for every
\* dispatch issued to the device, whether or not a nonce was found, so no
\* value of nonce_idx is dispatched twice on one adopted block; nonce_idx
\* returns to 0 only on adoption.  As steps: the iteration of an issued
\* dispatch (ghost.dispatched holds its Work) ends with nonce_idx one higher,
\* and every other change of nonce_idx is an adoption
C25_NonceIdxCountsDispatches ==
    [][LET idx == block_state.current_work.nonce_idx
           idx2 == block_state'.current_work.nonce_idx IN
       /\ (IsSome(ghost.dispatched) /\ ghost'.dispatched = None /\ mine_pc' # "dead")
             => idx2 = idx + 1
       /\ idx2 # idx
             => \/ idx2 = idx + 1
                \/ /\ IsSome(block_state.next_block)
                   /\ block_state'.next_block = None
                   /\ idx2 = 0]_vars

\* only the second half of C25: nonce_idx changes by one, or to 0 on adoption
C25_NonceIdxStepsByOne ==
    [][LET idx == block_state.current_work.nonce_idx
           idx2 == block_state'.current_work.nonce_idx IN
       idx2 # idx
          => \/ idx2 = idx + 1
             \/ /\ IsSome(block_state.next_block)
                /\ block_state'.next_block = None
                /\ idx2 = 0]_vars

\* C26: a winning nonce returned by a dispatch leads to exactly one
\* submitblock request, sent with current_block already emptied, and
\* current_block stays empty whatever the outcome of the request, so a solved
\* block is not submitted twice.  As steps: a request is sent only once the
\* solved block was taken out of current_block, at most once per iteration;
\* the iteration of a winning nonce does not end without its request; the
\* step that ends it leaves current_block empty
C26_WinningNonceSubmittedOnce ==
    [][/\ (request' # request /\ IsSome(request'))
             => /\ request = None
                /\ IsSome(found)
                /\ block_state.current_block = None
                /\ block_state'.current_block = None
                /\ request' = block
                /\ Unwrap(block).header = SetBigNonce(Unwrap(ghost.dispatched),
                                                     Unwrap(found)).header
                /\ Unwrap(block).body = Unwrap(ghost.adopted).body
       /\ (IsSome(found) /\ found' = None)
             => /\ IsSome(request)
                /\ block_state.current_block = None
                /\ block_state'.current_block = None]_vars

\* the request sent for a winning nonce failed in transport and the iteration
\* ended: the search loop is back at its start with no current block
C26_Witness ==
    /\ mine_pc = "start"
    /\ \E i \in DOMAIN logged : logged[i] = LogEntry("Error", "submit_block error")
    /\ block_state.current_block = None
    /\ request = None

\* C27: a poll that fails (transport error, undecodable response, null
\* result) leaves next_block, current_block, current_work and extra_nonce as
\* they were.  A step of the poll loop that ends a poll with an Error entry,
\* or with the end of the task, is a failed poll
C27_FailedPollLeavesChainState ==
    [][(/\ poll_pc \in {"inflight", "store"}
        /\ poll_pc' \notin {"inflight", "store"}
        /\ (HasError(logged') \/ poll_pc' = "dead"))
       => block_state' = block_state]_vars

\* the second poll came back without a template (a body that does not
\* decode, or a null result) while the template of the first was pending
C27_Witness ==
    /\ polls = 2 /\ poll_pc = "start"
    /\ logged = <<LogEntry("Error", "getrawunsolvedblock failed")>>
    /\ block_state.extra_nonce = 1
    /\ IsSome(block_state.next_block)
    /\ Unwrap(block_state.next_block).body = <<1>>

\* C28: when the flag slot of the output buffer read back after a dispatch
\* is zero, find_nonce returns no nonce whatever the candidate slots hold,
\* and logs nothing (no candidate is hashed)
C28_ZeroFlagReturnsNone ==
    (/\ call.op = "find_nonce" /\ call.done
     /\ ~call.dev.error
     /\ call.result.dispatched
     /\ call.dev.vec[FlagIdx] = 0)
    => /\ call.result.outcome = "ok"
       /\ call.result.nonce = None
       /\ call.result.header = None
       /\ call.result.logs = <<>>

\* find_nonce returned none on a buffer with a zero flag whose first slot
\* holds a nonce that is below the target
C28_Witness ==
    /\ call.op = "find_nonce" /\ call.done
    /\ ~call.dev.error
    /\ call.dev.vec[FlagIdx] = 0
    /\ call.dev.vec[1] # 0
    /\ IsSome(ScanSlots(call.work.header, call.work.target, call.dev.vec, 1,
                        NotFound).nonce)
    /\ call.result.outcome = "ok"
    /\ call.result.nonce = None

\* slot i of the call's output buffer holds a candidate whose hash fails the
\* sanity check: its most significant byte is not zero
SlotInsane(i) ==
    LET nonce == SwapBytes(call.dev.vec[i]) IN
    /\ nonce # 0
    /\ LotusHash(SpliceNonce(call.work.header, nonce))[HashBytes] # 0

\* the slots find_nonce has to examine: the non-zero ones up to the first
\* whose candidate is below the target
SlotsToExamine ==
    {i \in 1..ScanLen : /\ SwapBytes(call.dev.vec[i]) # 0
                        /\ \A j \in 1..(i - 1) : ~SlotQualifies(j)}

\* C29: a candidate whose hash fails the sanity check (most significant byte
\* not zero) is logged with severity Bug and does not end find_nonce: the
\* candidate is still compared with the target and returned when it is
\* below, and otherwise the slots after it are examined as they would have
\* been without it
C29_SanityFailureDoesNotAbort ==
    (/\ call.op = "find_nonce" /\ call.done
     /\ ~call.dev.error /\ call.result.dispatched
     /\ call.dev.vec[FlagIdx] # 0) =>
        /\ call.result.outcome = "ok"
        /\ Count(call.result.logs, "Bug", "found nonce's hash has no leading zero byte")
              = Cardinality({i \in SlotsToExamine : SlotInsane(i)})
        /\ \A i \in SlotsToExamine :
              SlotInsane(i) =>
                 /\ \E k \in 1..Len(call.result.logs) :
                        call.result.logs[k].severity = "Bug"
                 /\ SlotQualifies(i) => call.result.nonce = Some(SlotNonce(i))
                 /\ Len(SelectSeq(call.result.logs,
                                  LAMBDA e : e = LogEntry("Info", "Candidate")))
                       = Cardinality(SlotsToExamine)
                 /\ \A m \in SlotsToExamine :
                        (m > i /\ SlotQualifies(m))
                           => call.result.nonce = Some(SlotNonce(m))

\* the candidate of the first slot fails the sanity check and is not below
\* the target; the candidate of the second slot is returned
C29_Witness ==
    /\ call.op = "find_nonce" /\ call.done
    /\ call.result.outcome = "ok"
    /\ call.dev.vec[FlagIdx] # 0
    /\ SlotInsane(1) /\ ~SlotQualifies(1)
    /\ SlotQualifies(2)
    /\ call.result.nonce = Some(SlotNonce(2))
    /\ Len(call.result.logs) = 3

\* C30: update_gpu_index with the index the engine runs on changes nothing
\* and returns success; with another index, when the engine for it can be set
\* up, the Miner becomes a newly built engine whose settings are the current
\* ones (the kernel_size set by the set_intensity call just before included)
\* with the new index.  When the set-up fails the Miner stays as it was and
\* the failure is an Err value or a panic (C15).  In the step of the
\* settings-apply task set_intensity runs first, then update_gpu_index
C30_UpdateGpuIndexKeepsSettings ==
    [][ApplyStep =>
          LET cur == [miner EXCEPT
                         !.settings = SetIntensity(@, user_settings.intensity)]
              ok == ~HasError(logged') /\ ~miner_poisoned' IN
          IF user_settings.gpu_index = miner.settings.gpu_index
          THEN miner' = cur /\ ok
          ELSE \/ /\ ok
                  /\ miner'.build = miner.build + 1
                  /\ miner'.settings =
                         [cur.settings EXCEPT !.gpu_index = user_settings.gpu_index]
               \/ /\ ~ok
                  /\ miner' = cur]_vars

\* a settings-apply task moved the engine to device 1 after setting a
\* kernel_size that differs from the configured one: the new engine has both
C30_Witness ==
    /\ apply_pc = "idle" /\ applies >= 1
    /\ ~miner_poisoned
    /\ miner.build = 2
    /\ miner.settings.gpu_index = 1
    /\ miner.settings.kernel_size # 2^ConfigKernelSize
    /\ miner.settings.inner_iter_size = InnerIterSize

\* the credential hint is among the entries
HasHint(entries) ==
    \E i \in 1..Len(entries) : entries[i] = LogEntry("Error", "wrong username/password")

\* C31: a poll logs the credential hint exactly if the body of the response
\* fails to decode and the status is 401 Unauthorized; in that poll no
\* template is stored
C31_CredentialHintOn401DecodeFailure ==
    (call.op = "update_next_block" /\ call.done) =>
        /\ HasHint(call.result.logs) <=> (~call.arg.json /\ call.arg.status = 401)
        /\ HasHint(call.result.logs) =>
              /\ call.result.block_state = block_state
              /\ ~call.result.panic

\* the poll of a 401 response whose body is no JSON: the hint follows the
\* failure entry and the Chain State is as before
C31_Witness ==
    /\ call.op = "update_next_block" /\ call.done
    /\ call.arg.status = 401 /\ ~call.arg.json
    /\ call.result.logs = <<LogEntry("Error", "getrawunsolvedblock failed"),
                            LogEntry("Error", "wrong username/password")>>
    /\ call.result.block_state.next_block = None

\* C32: has_nonces_left is never stricter than the overflow guard of
\* find_nonce: for every Work and every setting for which has_nonces_left is
\* false, find_nonce returns none without dispatching
C32_AdvisoryNeverStricter ==
    (/\ call.op = "find_nonce" /\ call.done
     /\ ~HasNoncesLeft(call.settings, call.work))
    => /\ call.result.outcome = "overflow"
       /\ ~call.result.dispatched
       /\ call.result.nonce = None

\* the part of C32 that holds: with has_nonces_left false find_nonce makes no
\* dispatch, whether it returns none or panics
C32_NoDispatchWhenAdvisoryFalse ==
    (/\ call.op = "find_nonce" /\ call.done
     /\ ~HasNoncesLeft(call.settings, call.work))
    => /\ call.result.outcome \in {"overflow", "panic"}
       /\ ~call.result.dispatched
       /\ call.result.nonce = None

\* the second half of C32: the iteration in which the search loop logs the
\* exhaustion goes on to the relock without a dispatch
C32_ExhaustionLogMeansNoDispatch ==
    [][(\E i \in 1..Len(logged') :
           logged'[i] = LogEntry("Error", "Exhaustively searched nonces"))
       => /\ mine_pc = "spawn" /\ mine_pc' = "relock"
          /\ miner_lock' = miner_lock
          /\ ghost'.dispatched = None /\ found' = None]_vars

\* C33: with the one search loop of run(), a dispatch never returns a nonce
\* to an empty current_block: from the start of a dispatch to the handling of
\* its result current_block holds the block the dispatched Work was derived
\* from, whatever the poll loop and the settings-apply tasks do meanwhile,
\* and the entry "Found nonce but no block" is never logged
C33_NonceNeverWithoutBlock ==
    /\ mine_pc \in {"spawn", "dispatch", "relock"}
          => /\ IsSome(block_state.current_block)
             /\ block_state.current_block = ghost.adopted
    /\ \A i \in 1..Len(logged) : logged[i] # LogEntry("Bug", "Found nonce but no block")

\* a dispatch returned a nonce while the poll loop stored its second template
\* and a settings-apply task ran: the block is still the current block
C33_Witness ==
    /\ mine_pc = "relock" /\ IsSome(found)
    /\ polls = 2 /\ IsSome(block_state.next_block)
    /\ applies >= 1
    /\ IsSome(block_state.current_block)
    /\ Unwrap(block_state.current_block).body = <<1>>

\* C34: whenever current_block is non-empty, the header and the target of
\* current_work are those of current_block: the random big nonce and the
\* winning nonce go into the copy of the Work made for the dispatch, never
\* into the Work of the Chain State
C34_StoredWorkIsCurrentBlock ==
    IsSome(block_state.current_block)
       => /\ block_state.current_work.header = Unwrap(block_state.current_block).header
          /\ block_state.current_work.target = Unwrap(block_state.current_block).target

\* a dispatch is in flight on a copy that carries the big nonce, after an
\* earlier dispatch on the same block: the stored Work has the header of the
\* current block
C34_Witness ==
    /\ mine_pc = "dispatch"
    /\ IsSome(block_state.current_block)
    /\ block_state.current_work.nonce_idx >= 1
    /\ work.header # block_state.current_work.header
    /\ work.header.nonce = ToLeBytes(U64Max - 1, U64Bytes)

\* the server in which every dispatch and every node request returns and
\* the scheduling is fair: a step of a task that stays possible is taken.
\* The thread that a settings-apply task blocks on the miner mutex gets the
\* mutex if it is free again and again: it is woken by the unlock, while the
\* search loop sleeps and takes the Chain State lock before it comes back
\* for the miner.  The user's spawning of settings-apply tasks is not forced
SpecLive ==
    /\ Init /\ [][Next]_vars
    /\ WF_vars(PollSend) /\ WF_vars(PollTransportError \/ PollResponse)
    /\ WF_vars(PollStore)
    /\ WF_vars(MineBegin) /\ WF_vars(MineSpawn) /\ WF_vars(MineDispatchReturn)
    /\ WF_vars(MineRelock) /\ WF_vars(MineSubmitSend) /\ WF_vars(MineSubmitReturn)
    /\ SF_vars(ApplyLockMiner) /\ WF_vars(ApplyReconfigure)

\* C35: no deadlock over the locks: when every dispatch and every node
\* request returns, each task that waits for a lock gets it (the poll loop
\* for node_settings and block_state, the search loop for block_state, the
\* miner and node_settings, the settings-apply task for the miner), and each
\* lock that is held is released
C35_NoDeadlockOverLocks ==
    /\ (poll_pc = "start" /\ polls < MaxPolls) ~> (poll_pc = "inflight")
    /\ (poll_pc = "store") ~> (poll_pc # "store")
    /\ (mine_pc = "spawn") ~> (mine_pc # "spawn")
    /\ (mine_pc = "relock") ~> (mine_pc # "relock")
    /\ (mine_pc = "submit") ~> (mine_pc # "submit")
    /\ (apply_pc = "miner") ~> (apply_pc # "miner")
    /\ (bs_lock # Free) ~> (bs_lock = Free)
    /\ (ns_lock # Free) ~> (ns_lock = Free)
    /\ (miner_lock # Free) ~> (miner_lock = Free)

\* three tasks wait in a chain: the poll loop for block_state, which the
\* search loop holds while its submission waits for node_settings, which a
\* settings-apply task holds on its way to the miner
C35_Witness ==
    /\ poll_pc = "store"
    /\ mine_pc = "submit" /\ bs_lock = "mine"
    /\ apply_pc = "miner" /\ ns_lock = "apply"
    /\ miner_lock = Free

\* the template of poll n is pending in next_block
Pending(n) ==
    /\ IsSome(block_state.next_block)
    /\ Unwrap(block_state.next_block).body = <<n>>

\* C36: under fair scheduling, with every dispatch and every node request
\* returning, every template stored into next_block is eventually adopted by
\* the search loop or overwritten by a newer one, and once a poll has stored
\* a template a GPU dispatch eventually starts
C36_StoredTemplateIsSearched ==
    /\ \A n \in 1..MaxPolls : Pending(n) ~> ~Pending(n)
    /\ ([](block_state.extra_nonce = 0)) \/ <>(mine_pc = "dispatch")

\* C37: the nonce counter grows only by dispatches that ran on the device: an
\* iteration whose dispatch was skipped (by has_nonces_left or by the
\* overflow guard of find_nonce) or whose device call failed adds nothing
C37_CounterCountsExecutedDispatches ==
    (call.op = "iteration" /\ call.done) =>
        /\ ~call.result.dispatched => call.result.added = 0
        /\ call.result.dispatched =>
              call.result.added = NumNoncesPerSearch(call.settings)

\* C37 without the iterations that the overflow guard of find_nonce skips
C37_ExceptOverflowGuard ==
    (call.op = "iteration" /\ call.done /\ call.result.outcome # "overflow") =>
        /\ ~call.result.dispatched => call.result.added = 0
        /\ call.result.dispatched =>
              call.result.added = NumNoncesPerSearch(call.settings)

\* C38: nonce accounting is conserved: at every point the nonce counts of all
\* hashrate samples emitted so far plus the value of the counter equal the
\* nonces added by all iterations; nothing is lost or counted twice between
\* the load of the counter and its reset
C38_NonceAccountingConserved ==
    /\ metrics.total_sampled + metrics.metrics_nonces = metrics.total_added
    /\ IsSome(metrics.last_sample)
          => Unwrap(metrics.last_sample).num_nonces <= metrics.total_sampled

\* a sample was emitted for the nonces of two iterations and a later
\* iteration has added to the counter again
C38_Witness ==
    /\ metrics.samples >= 1
    /\ metrics.total_sampled > NumNoncesPerSearch(
           [kernel_size |-> 2^ConfigKernelSize, inner_iter_size |-> InnerIterSize])
    /\ metrics.metrics_nonces > 0

\* C39: after the search loop has submitted a solved block it does not go
\* on with a template that the poll loop fetched before the submission: the
\* block it adopts next is the template of a poll sent after the request
\* (ghost.polls_at_submit is the number of polls sent when the submitblock
\* request went out, kept until the next adoption; the template of poll n
\* has body <<n>>)
C39_NoStaleTemplateAfterSubmission ==
    [][(/\ IsSome(ghost.polls_at_submit)
        /\ IsSome(block_state.next_block)
        /\ block_state'.next_block = None)
       => Unwrap(block_state'.current_block).body[1]
              > Unwrap(ghost.polls_at_submit)]_vars
====
